---- MODULE Spec2Model ----
(***************************************************************************)
(* pr-metrics: the metrics aggregation engine (calculateMetrics) and the   *)
(* threshold-driven evaluator (detectInsights, getHealthEmoji).            *)
(*                                                                         *)
(* Numbers.  The code computes in JavaScript numbers.  Every division the  *)
(* code performs is kept exact here: a JS number is a rational <<n, d>>    *)
(* with d > 0 in lowest terms, so equal values are equal tuples; R(i) is   *)
(* the integer i.  null is the empty tuple; a nullable string is "null".   *)
(* Dates are integers, the value of getTime() in milliseconds.             *)
(*                                                                         *)
(* The action (run) is a process of its own: its position, its             *)
(* configuration, what GitHub and Aurora answer, and what it has fetched,  *)
(* set as outputs, posted and pushed.                                      *)
(***************************************************************************)
EXTENDS Integers, Sequences, FiniteSets, TLC

VARIABLES
    pc,          \* which call of the checked function has happened
    args,        \* the arguments of calculateMetrics
    result,      \* the SprintMetrics record calculateMetrics returned
    metrics,     \* the metrics argument of detectInsights / getHealthEmoji
    thresholds,  \* the thresholds argument of detectInsights / getHealthEmoji
    insights,    \* the list detectInsights returned
    health,      \* the status getHealthEmoji returned
    supplied,    \* the arguments as the caller built them, before any call
    round,       \* how often the caller has gone through its calls
    runPc,       \* where run() stands
    env,         \* the environment and inputs getConfig reads
    world,       \* what the GitHub API holds for the period
    fetched,     \* the client methods run() has called, in call order
    returned,    \* the client methods whose promise has resolved
    outputs,     \* the names of the action outputs set
    card,        \* the card rendered
    posted,      \* where the card has been posted
    pushed,      \* the state of the requests sent to Aurora
    warnings,    \* the warnings pushToAurora has logged
    poolPc,      \* where runWithConcurrency stands
    limit,       \* its limit argument
    calls,       \* the state of fn(item), for every item
    executing,   \* its executing array (the items of the promises in it)
    results,     \* its results array (the items of the results in it)
    sweepIndex   \* the index i of its removal loop

runVars == <<runPc, env, world, fetched, returned, outputs, card, posted, pushed, warnings>>

poolVars == <<poolPc, limit, calls, executing, results, sweepIndex>>

vars ==
    <<pc, args, result, metrics, thresholds, insights, health, supplied, round,
      runPc, env, world, fetched, returned, outputs, card, posted, pushed, warnings,
      poolPc, limit, calls, executing, results, sweepIndex>>

(***************************************************************************)
(* Exact arithmetic on JS numbers                                          *)
(***************************************************************************)
Null == <<>>

Abs(x) == IF x < 0 THEN -x ELSE x

RECURSIVE GCD(_, _)
GCD(a, b) == IF b = 0 THEN a ELSE GCD(b, a % b)

\* the rational n / d, d > 0, in lowest terms
Rat(n, d) == LET g == GCD(Abs(n), d) IN <<n \div g, d \div g>>

R(i) == <<i, 1>>

RLt(a, b) == a[1] * b[2] < b[1] * a[2]
RLe(a, b) == a[1] * b[2] <= b[1] * a[2]
RGe(a, b) == RLe(b, a)
RAdd(a, b) == Rat(a[1] * b[2] + b[1] * a[2], a[2] * b[2])
\* a / b for b > 0
RDiv(a, b) == Rat(a[1] * b[2], a[2] * b[1])
\* a / k for an integer k > 0
RDivInt(a, k) == Rat(a[1], a[2] * k)
\* Math.floor and Math.ceil of a rational
RFloor(a) == a[1] \div a[2]
RCeil(a) == -((-a[1]) \div a[2])
\* Math.floor in the place of Math.round
RRound_Floor(a) == a[1] \div a[2]

\* Math.round: the nearest integer, a half rounding up
RRound(a) == (2 * a[1] + a[2]) \div (2 * a[2])

\* the "|| 0" forgotten: null stays null
OrZero_Forgotten(v) == v

\* v || 0 for a number-or-null v: null and 0 both give 0
OrZero(v) == IF v = Null THEN R(0) ELSE v

Range(s) == {s[i] : i \in DOMAIN s}

(***************************************************************************)
(* The + of JS numbers.  A number is a binary floating-point value: a sum  *)
(* is the exact sum rounded to the nearest value of the mantissa's width,  *)
(* a tie going to the even mantissa.  IEEE 754 doubles have 53 bits; the   *)
(* integers of TLC have 32, so the model keeps MantissaBits of them.  An   *)
(* odd width rounds a third, and the sums of thirds, to the side 53 bits   *)
(* round them to.  Every integer and every half the model adds is exact in *)
(* either width.                                                           *)
(***************************************************************************)
MantissaBits == 9

\* x * 2^e
Scale(x, e) == IF e >= 0 THEN Rat(x[1] * 2^e, x[2]) ELSE Rat(x[1], x[2] * 2^(-e))

\* the e for which 2^(MantissaBits - 1) <= x * 2^e < 2^MantissaBits, x > 0
RECURSIVE Exponent(_)
Exponent(x) ==
    IF RLe(R(2^MantissaBits), x) THEN Exponent(Scale(x, -1)) - 1
    ELSE IF RLt(x, R(2^(MantissaBits - 1))) THEN Exponent(Scale(x, 1)) + 1
    ELSE 0

\* the floating-point value nearest to x >= 0
Fl(x) ==
    IF x[1] = 0 THEN x
    ELSE LET e == Exponent(x)
             y == Scale(x, e)
             q == y[1] \div y[2]
             twice == 2 * (y[1] - q * y[2])
             m == IF twice > y[2] \/ (twice = y[2] /\ q % 2 = 1) THEN q + 1 ELSE q
         IN  Scale(R(m), -e)

\* a + b
FAdd(a, b) == Fl(RAdd(a, b))

\* s.reduce((sum, x) => sum + x, 0): the elements are added from the left
SeqSum(s) ==
    LET sum[i \in 0..Len(s)] == IF i = 0 THEN R(0) ELSE FAdd(sum[i - 1], s[i])
    IN  sum[Len(s)]

(***************************************************************************)
(* Array.prototype.sort with a comparator (a, b) => key(a) - key(b): the   *)
(* elements in ascending order of their keys, stable.  The array is taken  *)
(* as pairs <<key, element>>; insertion puts a pair behind every earlier   *)
(* pair whose key is not greater.                                          *)
(***************************************************************************)
InsertSorted(t, pair) ==
    LET p == Cardinality({j \in 1..Len(t) : RLe(t[j][1], pair[1])})
    IN  SubSeq(t, 1, p) \o <<pair>> \o SubSeq(t, p + 1, Len(t))

StableSort(pairs) ==
    LET f[i \in 0..Len(pairs)] ==
            IF i = 0 THEN <<>> ELSE InsertSorted(f[i - 1], pairs[i])
    IN  f[Len(pairs)]

Elements(pairs) == [i \in DOMAIN pairs |-> pairs[i][2]]

\* [...values].sort((a, b) => a - b)
SortNumbers(values) ==
    Elements(StableSort([i \in DOMAIN values |-> <<values[i], values[i]>>]))

(***************************************************************************)
(* metrics.ts: median, percentile                                          *)
(***************************************************************************)
\* the even case taking the upper centre element instead of the average
median_UpperCentre(values) ==
    IF Len(values) = 0 THEN Null
    ELSE LET sorted == SortNumbers(values)
         IN  sorted[(Len(sorted) \div 2) + 1]

median(values) ==
    IF Len(values) = 0 THEN Null
    ELSE LET sorted == SortNumbers(values)
             mid == Len(sorted) \div 2          \* 0-based index
         IN  IF Len(sorted) % 2 = 0
             THEN RDivInt(RAdd(sorted[mid], sorted[mid + 1]), 2)
             ELSE sorted[mid + 1]

\* Math.floor where the code has Math.ceil
percentile_Floor(values, p) ==
    IF Len(values) = 0 THEN Null
    ELSE LET sorted == SortNumbers(values)
             index == RFloor(Rat(p * Len(sorted), 100)) - 1
         IN  sorted[(IF index > 0 THEN index ELSE 0) + 1]

\* the lowest value where the code takes the one at the percentile's index
percentile_Lowest(values, p) ==
    IF Len(values) = 0 THEN Null
    ELSE SortNumbers(values)[1]

percentile(values, p) ==
    IF Len(values) = 0 THEN Null
    ELSE LET sorted == SortNumbers(values)
             index == RCeil(Rat(p * Len(sorted), 100)) - 1
         IN  sorted[(IF index > 0 THEN index ELSE 0) + 1]

(***************************************************************************)
(* metrics.ts: calculateMetrics                                            *)
(*                                                                         *)
(* A PullRequest is [number, createdAt, mergedAt, author]; a Review is     *)
(* [submittedAt, author, commentCount]; a ShipEvent is [createdAt,         *)
(* source].  The fields calculateMetrics never reads (title, state, id,    *)
(* sha, label, prNumber) are left out.  A Map is a function on its keys.   *)
(* An optional member of MetricsOptions is a record with a flag "has"      *)
(* (FALSE: undefined); workflowRuns has kind "undefined", "null" or        *)
(* "value".                                                                *)
(***************************************************************************)
MsPerHour == 1000 * 60 * 60

\* (b.getTime() - a.getTime()) / (1000 * 60 * 60)
HoursBetween(a, b) == Rat(b - a, MsPerHour)

\* map.get(key) || [] for a Map of arrays
GetOrEmpty(map, key) == IF key \in DOMAIN map THEN map[key] ELSE <<>>

MaxOf(S) == CHOOSE x \in S : \A y \in S : y <= x

\* pullRequests.map(pr => hours from createdAt to mergedAt)
CycleTimes(pullRequests) ==
    [i \in 1..Len(pullRequests) |->
        HoursBetween(pullRequests[i].createdAt, pullRequests[i].mergedAt)]

\* the filter forgotten: the author's own reviews count
NonAuthorReviews_Unfiltered(pr, reviewsByPR) == GetOrEmpty(reviewsByPR, pr.number)

\* reviews.filter(r => r.author !== pr.author)
NonAuthorReviews(pr, reviewsByPR) ==
    LET reviews == GetOrEmpty(reviewsByPR, pr.number)
        NotByAuthor(r) == r.author # pr.author
    IN  SelectSeq(reviews, NotByAuthor)

\* the comparator turned round (b - a): the latest review first
BySubmittedAt_Latest(reviews) ==
    Elements(StableSort([i \in DOMAIN reviews |-> <<R(-reviews[i].submittedAt), reviews[i]>>]))

\* .sort((a, b) => a.submittedAt.getTime() - b.submittedAt.getTime())
BySubmittedAt(reviews) ==
    Elements(StableSort([i \in DOMAIN reviews |-> <<R(reviews[i].submittedAt), reviews[i]>>]))

\* the loop that fills reviewTurnarounds, one PR after the other
RECURSIVE ReviewTurnarounds(_, _)
ReviewTurnarounds(pullRequests, reviewsByPR) ==
    IF pullRequests = <<>> THEN <<>>
    ELSE LET pr == Head(pullRequests)
             ordered == BySubmittedAt(NonAuthorReviews(pr, reviewsByPR))
             rest == ReviewTurnarounds(Tail(pullRequests), reviewsByPR)
         IN  IF ordered # <<>>
             THEN <<HoursBetween(pr.createdAt, ordered[1].submittedAt)>> \o rest
             ELSE rest

\* contributorPRCounts: author -> number of PRs
ContributorPRCounts(pullRequests) ==
    [a \in {pullRequests[i].author : i \in DOMAIN pullRequests} |->
        Cardinality({i \in DOMAIN pullRequests : pullRequests[i].author = a})]

\* divided by the number of contributors instead of the number of PRs
ConcentrationRatio_PerContributor(pullRequests) ==
    LET counts == ContributorPRCounts(pullRequests)
    IN  IF Len(pullRequests) > 0
        THEN Rat(MaxOf({counts[a] : a \in DOMAIN counts}), Cardinality(DOMAIN counts))
        ELSE R(0)

ConcentrationRatio(pullRequests) ==
    LET counts == ContributorPRCounts(pullRequests)
        totalPRs == Len(pullRequests)
    IN  IF totalPRs > 0
        THEN Rat(MaxOf({counts[a] : a \in DOMAIN counts}), totalPRs)
        ELSE R(0)

CommentCounts(reviews) == [i \in 1..Len(reviews) |-> reviews[i].commentCount]

\* the loop that accumulates totalComments and prsWithReviews
ReviewDepthTotals(pullRequests, reviewsByPR) ==
    LET t[i \in 0..Len(pullRequests)] ==
            IF i = 0 THEN [totalComments |-> R(0), prsWithReviews |-> 0]
            ELSE LET nonAuthorReviews == NonAuthorReviews(pullRequests[i], reviewsByPR)
                 IN  IF Len(nonAuthorReviews) > 0
                     THEN [totalComments |->
                               FAdd(t[i - 1].totalComments,
                                    SeqSum(CommentCounts(nonAuthorReviews))),
                           prsWithReviews |-> t[i - 1].prsWithReviews + 1]
                     ELSE t[i - 1]
    IN  t[Len(pullRequests)]

ReviewDepthScore(pullRequests, reviewsByPR) ==
    LET t == ReviewDepthTotals(pullRequests, reviewsByPR)
    IN  IF t.prsWithReviews > 0 THEN RDivInt(t.totalComments, t.prsWithReviews) ELSE R(0)

\* [...map.values()] in insertion order; the keys here are inserted ascending
RECURSIVE MapValues(_)
MapValues(map) ==
    IF DOMAIN map = {} THEN <<>>
    ELSE LET k == CHOOSE x \in DOMAIN map : \A y \in DOMAIN map : x <= y
         IN  <<map[k]>> \o MapValues([x \in DOMAIN map \ {k} |-> map[x]])

SmallBelow == 100
MediumBelow == 400

\* the cutoffs compared by <= instead of <
PrSizeCategory_Inclusive(prSizeMedian) ==
    IF prSizeMedian = Null THEN "null"
    ELSE IF RLe(prSizeMedian, R(SmallBelow)) THEN "small"
    ELSE IF RLe(prSizeMedian, R(MediumBelow)) THEN "medium"
    ELSE "large"

PrSizeCategory(prSizeMedian) ==
    IF prSizeMedian = Null THEN "null"
    ELSE IF RLt(prSizeMedian, R(SmallBelow)) THEN "small"
    ELSE IF RLt(prSizeMedian, R(MediumBelow)) THEN "medium"
    ELSE "large"

PrSize(options) ==
    IF options.given /\ options.prSizes.has /\ Cardinality(DOMAIN options.prSizes.map) > 0
    THEN LET all == MapValues(options.prSizes.map)
             sizes == [i \in 1..Len(all) |-> R(all[i].additions + all[i].deletions)]
         IN  [median |-> median(sizes), category |-> PrSizeCategory(median(sizes))]
    ELSE [median |-> Null, category |-> "null"]

Build(options) ==
    IF options.given /\ options.workflowRuns.kind = "value"
       /\ options.workflowRuns.totalRuns > 0
    THEN [totalRuns |-> R(options.workflowRuns.totalRuns),
          successRate |->
              R(RRound(Rat(options.workflowRuns.successCount * 100,
                           options.workflowRuns.totalRuns)))]
    ELSE [totalRuns |-> Null, successRate |-> Null]

DefaultPeriodDays == 14

HasShipEvents(options) ==
    options.given /\ options.shipEvents.has /\ Len(options.shipEvents.list) > 0

\* the source of the last event in the place of the first
Ship_LastSource(options) ==
    IF HasShipEvents(options)
    THEN LET shipCount == Len(options.shipEvents.list)
             days == IF options.periodDays.has /\ options.periodDays.value # 0
                     THEN options.periodDays.value
                     ELSE DefaultPeriodDays
         IN  [count |-> R(shipCount),
              source |-> options.shipEvents.list[shipCount].source,
              frequency |-> Rat(shipCount, days)]
    ELSE [count |-> Null, source |-> "null", frequency |-> Null]

\* "options.periodDays || 14": the default stands in for undefined and for 0
Ship(options) ==
    IF HasShipEvents(options)
    THEN LET shipCount == Len(options.shipEvents.list)
             days == IF options.periodDays.has /\ options.periodDays.value # 0
                     THEN options.periodDays.value
                     ELSE DefaultPeriodDays
         IN  [count |-> R(shipCount),
              source |-> options.shipEvents.list[1].source,
              frequency |-> Rat(shipCount, days)]
    ELSE [count |-> Null, source |-> "null", frequency |-> Null]

\* the ship events left in the order supplied, the sort forgotten
ByCreatedAt_Unsorted(events) == events

\* [...shipEvents].sort((a, b) => a.createdAt.getTime() - b.createdAt.getTime())
ByCreatedAt(events) ==
    Elements(StableSort([i \in DOMAIN events |-> <<R(events[i].createdAt), events[i]>>]))

\* an event after the merge only, none at the merge
FindShipEvent_Strict(sortedShipEvents, pr) ==
    LET hits == {i \in DOMAIN sortedShipEvents :
                    sortedShipEvents[i].createdAt > pr.mergedAt}
    IN  IF hits = {} THEN 0 ELSE CHOOSE i \in hits : \A j \in hits : i <= j

\* sortedShipEvents.find(e => e.createdAt >= pr.mergedAt): 0 when there is none
FindShipEvent(sortedShipEvents, pr) ==
    LET hits == {i \in DOMAIN sortedShipEvents :
                    sortedShipEvents[i].createdAt >= pr.mergedAt}
    IN  IF hits = {} THEN 0 ELSE CHOOSE i \in hits : \A j \in hits : i <= j

\* the loop that fills leadTimes
RECURSIVE LeadTimes(_, _, _)
LeadTimes(pullRequests, sortedShipEvents, firstCommitDates) ==
    IF pullRequests = <<>> THEN <<>>
    ELSE LET pr == Head(pullRequests)
             rest == LeadTimes(Tail(pullRequests), sortedShipEvents, firstCommitDates)
             at == FindShipEvent(sortedShipEvents, pr)
         IN  IF pr.number \notin DOMAIN firstCommitDates THEN rest
             ELSE IF at = 0 THEN rest
             ELSE LET hours == HoursBetween(firstCommitDates[pr.number],
                                            sortedShipEvents[at].createdAt)
                  IN  IF RGe(hours, R(0)) THEN <<hours>> \o rest ELSE rest

\* the median of the lead times taken with || null: a median of 0 is lost
LeadTime_ZeroIsNull(pullRequests, options) ==
    IF HasShipEvents(options) /\ options.firstCommitDates.has
       /\ Cardinality(DOMAIN options.firstCommitDates.map) > 0
    THEN LET sortedShipEvents == ByCreatedAt(options.shipEvents.list)
             leadTimes == LeadTimes(pullRequests, sortedShipEvents,
                                    options.firstCommitDates.map)
         IN  IF Len(leadTimes) > 0 /\ median(leadTimes) # R(0)
             THEN median(leadTimes) ELSE Null
    ELSE Null

LeadTime(pullRequests, options) ==
    IF HasShipEvents(options) /\ options.firstCommitDates.has
       /\ Cardinality(DOMAIN options.firstCommitDates.map) > 0
    THEN LET sortedShipEvents == ByCreatedAt(options.shipEvents.list)
             leadTimes == LeadTimes(pullRequests, sortedShipEvents,
                                    options.firstCommitDates.map)
         IN  IF Len(leadTimes) > 0 THEN median(leadTimes) ELSE Null
    ELSE Null

\* the ship-event list sorted where it stands, no copy taken
ShipEventsAfterCall_SortedInPlace(events) == ByCreatedAt(events)

\* [...options.shipEvents].sort(...): the sort works on a copy, the list of
\* the caller keeps its order
ShipEventsAfterCall(events) == events

\* reviews.filter(...).sort(...): the sort works on the filtered copy, the
\* list of the caller keeps its order
ReviewsAfterCall(reviews) == reviews

\* the argument objects once calculateMetrics has returned: it reads the PR
\* list, the maps and the options, and sorts copies only
ArgsAfterCall(a) ==
    [a EXCEPT !.reviewsByPR = [n \in DOMAIN @ |-> ReviewsAfterCall(@[n])],
              !.options.shipEvents.list = ShipEventsAfterCall(@)]

P90 == 90

calculateMetrics(pullRequests, reviewsByPR, openPRCount, options) ==
    LET cycleTimes == CycleTimes(pullRequests)
        reviewTurnarounds == ReviewTurnarounds(pullRequests, reviewsByPR)
    IN  [cycleTimeMedianHours |-> OrZero(median(cycleTimes)),
         cycleTimeP90Hours |-> OrZero(percentile(cycleTimes, P90)),
         throughputCount |-> R(Len(pullRequests)),
         wipCount |-> openPRCount,
         prSizeMedian |-> PrSize(options).median,
         prSizeCategory |-> PrSize(options).category,
         buildSuccessRate |-> Build(options).successRate,
         buildTotalRuns |-> Build(options).totalRuns,
         shipFrequency |-> Ship(options).frequency,
         shipCount |-> Ship(options).count,
         shipSource |-> Ship(options).source,
         leadTimeMedianHours |-> LeadTime(pullRequests, options),
         reviewTurnaroundMedianHours |-> OrZero(median(reviewTurnarounds)),
         collaboratorCount |-> R(Cardinality(DOMAIN ContributorPRCounts(pullRequests))),
         concentrationRatio |-> ConcentrationRatio(pullRequests),
         reviewDepthScore |-> ReviewDepthScore(pullRequests, reviewsByPR),
         cycleTimeTrend |-> "stable",
         prNumbers |-> [i \in 1..Len(pullRequests) |-> pullRequests[i].number]]

(***************************************************************************)
(* insights.ts: detectInsights, getHealthEmoji                             *)
(*                                                                         *)
(* An Insight is [type, severity]; its message, a text built from the      *)
(* same metric values, is left out.  Each rule is the if / else-if of the  *)
(* code and yields the list of what it pushes (nothing or one insight).    *)
(***************************************************************************)
Insight(type, severity) == [type |-> type, severity |-> severity]

\* the knowledge-silo rule without its warning branch
KnowledgeSiloRule_CriticalOnly(m, t) ==
    IF RGe(m.concentrationRatio, t.concentrationCritical)
    THEN <<Insight("knowledge-silo", "critical")>>
    ELSE <<>>

KnowledgeSiloRule(m, t) ==
    IF RGe(m.concentrationRatio, t.concentrationCritical)
    THEN <<Insight("knowledge-silo", "critical")>>
    ELSE IF RGe(m.concentrationRatio, t.concentrationWarning)
    THEN <<Insight("knowledge-silo", "warning")>>
    ELSE <<>>

\* the comparisons strict: a value at a cutoff does not meet it
CycleTimeRule_Strict(m, t) ==
    IF RLt(t.cycleTimeCriticalHours, m.cycleTimeMedianHours)
    THEN <<Insight("cycle-time-regression", "critical")>>
    ELSE IF RLt(t.cycleTimeWarningHours, m.cycleTimeMedianHours)
    THEN <<Insight("cycle-time-regression", "warning")>>
    ELSE <<>>

CycleTimeRule(m, t) ==
    IF RGe(m.cycleTimeMedianHours, t.cycleTimeCriticalHours)
    THEN <<Insight("cycle-time-regression", "critical")>>
    ELSE IF RGe(m.cycleTimeMedianHours, t.cycleTimeWarningHours)
    THEN <<Insight("cycle-time-regression", "warning")>>
    ELSE <<>>

\* the quotient taken without the guard: a positive count over 0 is Infinity
\* (above every cutoff), 0 / 0 is NaN (no comparison with it is true)
WipRatio_Unguarded(m) ==
    IF RLt(R(0), m.collaboratorCount) THEN RDiv(m.wipCount, m.collaboratorCount)
    ELSE IF RLt(R(0), m.wipCount) THEN R(1000000)
    ELSE R(-1)

\* collaboratorCount > 0 ? wipCount / collaboratorCount : 0
WipRatio(m) ==
    IF RLt(R(0), m.collaboratorCount)
    THEN RDiv(m.wipCount, m.collaboratorCount)
    ELSE R(0)

WipRule(m, t) ==
    IF RGe(WipRatio(m), t.wipCriticalRatio)
    THEN <<Insight("wip-overload", "critical")>>
    ELSE IF RGe(WipRatio(m), t.wipWarningRatio)
    THEN <<Insight("wip-overload", "warning")>>
    ELSE <<>>

ReviewBottleneckRule(m, t) ==
    IF RGe(m.reviewTurnaroundMedianHours, t.reviewCriticalHours)
    THEN <<Insight("review-bottleneck", "critical")>>
    ELSE IF RGe(m.reviewTurnaroundMedianHours, t.reviewWarningHours)
    THEN <<Insight("review-bottleneck", "warning")>>
    ELSE <<>>

\* the rule without its "only if there were reviews" guard
ShallowReviewsRule_NoThroughput(m, t) ==
    IF RLe(m.reviewDepthScore, t.reviewDepthCritical)
    THEN <<Insight("shallow-reviews", "warning")>>
    ELSE IF RLe(m.reviewDepthScore, t.reviewDepthWarning)
    THEN <<Insight("shallow-reviews", "info")>>
    ELSE <<>>

ShallowReviewsRule(m, t) ==
    IF RLt(R(0), m.throughputCount) /\ RLe(m.reviewDepthScore, t.reviewDepthCritical)
    THEN <<Insight("shallow-reviews", "warning")>>
    ELSE IF RLt(R(0), m.throughputCount) /\ RLe(m.reviewDepthScore, t.reviewDepthWarning)
    THEN <<Insight("shallow-reviews", "info")>>
    ELSE <<>>

\* the severities of the rule table's columns: critical and warning
LargePrsRule_Critical(m, t) ==
    IF m.prSizeMedian # Null /\ RGe(m.prSizeMedian, t.prSizeCritical)
    THEN <<Insight("large-prs", "critical")>>
    ELSE IF m.prSizeMedian # Null /\ RGe(m.prSizeMedian, t.prSizeWarning)
    THEN <<Insight("large-prs", "info")>>
    ELSE <<>>

LargePrsRule(m, t) ==
    IF m.prSizeMedian # Null /\ RGe(m.prSizeMedian, t.prSizeCritical)
    THEN <<Insight("large-prs", "warning")>>
    ELSE IF m.prSizeMedian # Null /\ RGe(m.prSizeMedian, t.prSizeWarning)
    THEN <<Insight("large-prs", "info")>>
    ELSE <<>>

BuildFailuresRule(m, t) ==
    IF m.buildSuccessRate # Null /\ RLt(m.buildSuccessRate, t.buildSuccessCritical)
    THEN <<Insight("build-failures", "critical")>>
    ELSE IF m.buildSuccessRate # Null /\ RLt(m.buildSuccessRate, t.buildSuccessWarning)
    THEN <<Insight("build-failures", "warning")>>
    ELSE <<>>

LeadTimeWarningHours == 168

\* the comparison strict: a lead time of 168 h does not fire
SlowLeadTimeRule_Strict(m, t) ==
    IF m.leadTimeMedianHours # Null /\ RLt(R(LeadTimeWarningHours), m.leadTimeMedianHours)
    THEN <<Insight("slow-lead-time", "warning")>>
    ELSE <<>>

SlowLeadTimeRule(m, t) ==
    IF m.leadTimeMedianHours # Null /\ RGe(m.leadTimeMedianHours, R(LeadTimeWarningHours))
    THEN <<Insight("slow-lead-time", "warning")>>
    ELSE <<>>

\* the insights array before it is sorted, in push order
PushedInsights(m, t) ==
    KnowledgeSiloRule(m, t) \o CycleTimeRule(m, t) \o WipRule(m, t)
        \o ReviewBottleneckRule(m, t) \o ShallowReviewsRule(m, t)
        \o LargePrsRule(m, t) \o BuildFailuresRule(m, t) \o SlowLeadTimeRule(m, t)

severityOrder(severity) ==
    CASE severity = "critical" -> 0
      [] severity = "warning" -> 1
      [] severity = "info" -> 2

\* the comparator turned round (b - a): the least severe first
BySeverity_Reversed(list) ==
    Elements(StableSort([i \in DOMAIN list |-> <<R(-severityOrder(list[i].severity)), list[i]>>]))

\* a sort by severity that is not stable: of equal severities the one pushed
\* last comes first
BySeverity_TiesLast(list) ==
    Elements(StableSort([i \in DOMAIN list |->
        <<R(severityOrder(list[Len(list) + 1 - i].severity)), list[Len(list) + 1 - i]>>]))

\* insights.sort((a, b) => severityOrder[a.severity] - severityOrder[b.severity])
BySeverity(list) ==
    Elements(StableSort([i \in DOMAIN list |-> <<R(severityOrder(list[i].severity)), list[i]>>]))

\* insights.slice(0, 1)
SliceFirst(s) == IF Len(s) = 0 THEN <<>> ELSE <<s[1]>>

detectInsights(m, t) == SliceFirst(BySeverity(PushedInsights(m, t)))

\* the first condition of getHealthEmoji, with the build rate compared by <=
HealthCritical_BuildInclusive(m, t) ==
    \/ RGe(m.cycleTimeMedianHours, t.cycleTimeCriticalHours)
    \/ RGe(WipRatio(m), t.wipCriticalRatio)
    \/ (m.buildSuccessRate # Null /\ RLe(m.buildSuccessRate, t.buildSuccessCritical))

\* the first condition of getHealthEmoji
HealthCritical(m, t) ==
    \/ RGe(m.cycleTimeMedianHours, t.cycleTimeCriticalHours)
    \/ RGe(WipRatio(m), t.wipCriticalRatio)
    \/ (m.buildSuccessRate # Null /\ RLt(m.buildSuccessRate, t.buildSuccessCritical))

\* the second condition of getHealthEmoji, the concentration line lost
HealthWarning_NoConcentration(m, t) ==
    \/ RGe(m.cycleTimeMedianHours, t.cycleTimeWarningHours)
    \/ RGe(WipRatio(m), t.wipWarningRatio)
    \/ (m.buildSuccessRate # Null /\ RLt(m.buildSuccessRate, t.buildSuccessWarning))

\* the second condition of getHealthEmoji
HealthWarning(m, t) ==
    \/ RGe(m.cycleTimeMedianHours, t.cycleTimeWarningHours)
    \/ RGe(WipRatio(m), t.wipWarningRatio)
    \/ RGe(m.concentrationRatio, t.concentrationWarning)
    \/ (m.buildSuccessRate # Null /\ RLt(m.buildSuccessRate, t.buildSuccessWarning))

\* the status is named by its meaning: critical (red), warning (yellow),
\* healthy (green)
getHealthEmoji(m, t) ==
    IF HealthCritical(m, t) THEN "critical"
    ELSE IF HealthWarning(m, t) THEN "warning"
    ELSE "healthy"

(***************************************************************************)
(* The evaluator under check: a metrics record and a thresholds record are *)
(* drawn, then detectInsights and getHealthEmoji are called on them, in    *)
(* either order.                                                           *)
(***************************************************************************)

\* config.ts, getConfig: the thresholds with no input set
DefaultThresholds ==
    [cycleTimeWarningHours |-> R(72), cycleTimeCriticalHours |-> R(168),
     reviewWarningHours |-> R(24), reviewCriticalHours |-> R(48),
     wipWarningRatio |-> R(2), wipCriticalRatio |-> R(3),
     concentrationWarning |-> Rat(6, 10), concentrationCritical |-> Rat(75, 100),
     reviewDepthWarning |-> Rat(5, 10), reviewDepthCritical |-> Rat(2, 10),
     prSizeWarning |-> R(400), prSizeCritical |-> R(1000),
     buildSuccessWarning |-> R(90), buildSuccessCritical |-> R(75)]

\* the inputs of the action are parsed with no check of their order: the
\* warning and critical cutoffs of cycle time, review and WIP exchanged
SwapConfigurable(t) ==
    [t EXCEPT !.cycleTimeWarningHours = t.cycleTimeCriticalHours,
              !.cycleTimeCriticalHours = t.cycleTimeWarningHours,
              !.reviewWarningHours = t.reviewCriticalHours,
              !.reviewCriticalHours = t.reviewWarningHours,
              !.wipWarningRatio = t.wipCriticalRatio,
              !.wipCriticalRatio = t.wipWarningRatio]

\* a caller of the exported functions may pass any Thresholds record: the
\* cutoffs getConfig fixes exchanged as well
SwapFixed(t) ==
    [t EXCEPT !.concentrationWarning = t.concentrationCritical,
              !.concentrationCritical = t.concentrationWarning,
              !.reviewDepthWarning = t.reviewDepthCritical,
              !.reviewDepthCritical = t.reviewDepthWarning,
              !.prSizeWarning = t.prSizeCritical,
              !.prSizeCritical = t.prSizeWarning,
              !.buildSuccessWarning = t.buildSuccessCritical,
              !.buildSuccessCritical = t.buildSuccessWarning]

\* the tighter cutoffs of the custom-thresholds tests
TighterThresholds ==
    [DefaultThresholds EXCEPT !.cycleTimeWarningHours = R(10),
                              !.wipWarningRatio = R(1),
                              !.reviewWarningHours = R(4)]

ThresholdsRecords ==
    {DefaultThresholds, TighterThresholds, SwapConfigurable(DefaultThresholds),
     SwapFixed(SwapConfigurable(DefaultThresholds))}

\* the values each field of a metrics record is drawn from: below, on and
\* above the cutoffs of the thresholds records
ConcentrationValues == {Rat(3, 10), Rat(6, 10), Rat(75, 100)}
CycleTimeValues == {R(20), R(72), R(168)}
WipValues ==
    {<<R(2), R(4)>>, <<R(8), R(4)>>, <<R(12), R(4)>>, <<R(10), R(0)>>, <<R(0), R(0)>>}
ReviewTurnaroundValues == {R(8), R(24), R(48)}
ThroughputValues == {R(0), R(5)}
ReviewDepthValues == {R(0), Rat(2, 10), Rat(5, 10), R(2)}
PrSizeValues == {Null, R(50), R(400), R(1000)}
BuildRateValues == {Null, R(74), R(75), R(90)}
LeadTimeValues == {Null, R(100), R(168)}

MetricsRecords ==
    {[cycleTimeMedianHours |-> ct, cycleTimeP90Hours |-> ct,
      throughputCount |-> tp, wipCount |-> wip[1],
      prSizeMedian |-> size, prSizeCategory |-> PrSizeCategory(size),
      buildSuccessRate |-> build,
      buildTotalRuns |-> IF build = Null THEN Null ELSE R(100),
      shipFrequency |-> Null, shipCount |-> Null, shipSource |-> "null",
      leadTimeMedianHours |-> lead,
      reviewTurnaroundMedianHours |-> rt, collaboratorCount |-> wip[2],
      concentrationRatio |-> conc, reviewDepthScore |-> depth,
      cycleTimeTrend |-> "stable", prNumbers |-> <<>>] :
        ct \in CycleTimeValues, tp \in ThroughputValues, wip \in WipValues,
        size \in PrSizeValues, build \in BuildRateValues, lead \in LeadTimeValues,
        rt \in ReviewTurnaroundValues, conc \in ConcentrationValues,
        depth \in ReviewDepthValues}

NoArgs == [none |-> TRUE]
NoMetrics == [none |-> TRUE]

NoCard == [kind |-> "none", body |-> "", status |-> "none"]

\* no runWithConcurrency under way
NoPool ==
    /\ poolPc = "idle"
    /\ limit = 0
    /\ calls = <<>>
    /\ executing = <<>>
    /\ results = <<>>
    /\ sweepIndex = 0

\* run() is not part of the calls under check
NoRun ==
    /\ runPc = "idle"
    /\ env = [none |-> TRUE]
    /\ world = [none |-> TRUE]
    /\ fetched = <<>>
    /\ returned = {}
    /\ outputs = {}
    /\ card = NoCard
    /\ posted = {}
    /\ pushed = <<>>
    /\ warnings = 0

\* the objects a caller holds and passes by reference
Supplied(a, m, t) == [args |-> a, metrics |-> m, thresholds |-> t]

InitEval ==
    /\ pc = {}
    /\ metrics \in MetricsRecords
    /\ thresholds \in ThresholdsRecords
    /\ insights = <<>>
    /\ health = "none"
    /\ args = NoArgs
    /\ result = NoMetrics
    /\ supplied = Supplied(args, metrics, thresholds)
    /\ round = 1
    /\ NoRun
    /\ NoPool

CallDetectInsights ==
    /\ "detectInsights" \notin pc
    /\ insights' = detectInsights(metrics, thresholds)
    /\ pc' = pc \cup {"detectInsights"}
    /\ UNCHANGED <<args, result, metrics, thresholds, health, supplied, round>>
    /\ UNCHANGED runVars
    /\ UNCHANGED poolVars

CallGetHealthEmoji ==
    /\ "getHealthEmoji" \notin pc
    /\ health' = getHealthEmoji(metrics, thresholds)
    /\ pc' = pc \cup {"getHealthEmoji"}
    /\ UNCHANGED <<args, result, metrics, thresholds, insights, supplied, round>>
    /\ UNCHANGED runVars
    /\ UNCHANGED poolVars

NextEval == CallDetectInsights \/ CallGetHealthEmoji

SpecEval == InitEval /\ [][NextEval]_vars

(***************************************************************************)
(* The aggregator under check: the arguments of one call of                *)
(* calculateMetrics are drawn, then the call is made.                      *)
(*                                                                         *)
(* The arguments come from families, each varying one part of the input    *)
(* over every combination of its values while the rest is plain.           *)
(***************************************************************************)
MaxPRs == 3            \* PRs in a list whose authors and times vary
LongPRs == 10          \* PRs in a long list (the 90th percentile below the top)
MaxReviewedPRs == 2    \* PRs in a list whose reviews vary
MaxReviews == 2        \* reviews of one PR
MaxSizes == 3          \* entries of a PR-size map
MaxRuns == 8           \* workflow runs in a summary
MaxShipEvents == 3     \* events in a ship-event list
MaxShippedPRs == 2     \* PRs in a list whose merge and first-commit times vary

\* a Date, given in half hours since the start of the period
At(halfHours) == halfHours * (MsPerHour \div 2)

PRNumber(i) == 100 + i

Authors == {"alice", "bob", "carol"}

SeqsUpTo(S, n) == UNION {[1..k -> S] : k \in 0..n}

NoOptions ==
    [given |-> FALSE,
     prSizes |-> [has |-> FALSE, map |-> <<>>],
     workflowRuns |-> [kind |-> "undefined", totalRuns |-> 0, successCount |-> 0,
                       failureCount |-> 0],
     shipEvents |-> [has |-> FALSE, list |-> <<>>],
     firstCommitDates |-> [has |-> FALSE, map |-> <<>>],
     periodDays |-> [has |-> FALSE, value |-> 0]]

\* an options object with no member set
EmptyOptions == [NoOptions EXCEPT !.given = TRUE]

Args(prs, reviews, open, options) ==
    [pullRequests |-> prs, reviewsByPR |-> reviews, openPRCount |-> R(open),
     options |-> options]

\* createdAt and mergedAt: cycle times of 1 h, 4 h and 1.5 h
Timings == {<<0, 2>>, <<0, 8>>, <<2, 5>>}

PR(i, author, timing) ==
    [number |-> PRNumber(i), author |-> author,
     createdAt |-> At(timing[1]), mergedAt |-> At(timing[2])]

OpenCounts == {0, 3}

\* authors and times vary; no reviews, no options
TimingArgs ==
    {Args([i \in DOMAIN shape |-> PR(i, shape[i][1], shape[i][2])], <<>>, open, NoOptions) :
        shape \in SeqsUpTo(Authors \X Timings, MaxPRs), open \in OpenCounts}

\* long lists of one author, cycle times of 1 h and 4 h
LongArgs ==
    {Args([i \in DOMAIN shape |-> PR(i, "alice", shape[i])], <<>>, 0, NoOptions) :
        shape \in [1..(LongPRs - 1) -> {<<0, 2>>, <<0, 8>>}]
                    \cup [1..LongPRs -> {<<0, 2>>, <<0, 8>>}]}

Review(author, halfHours, commentCount) ==
    [author |-> author, submittedAt |-> At(halfHours), commentCount |-> commentCount]

\* alice comments twice at 2 h, bob once at 4 h, carol half a comment (a
\* share of the inline comments) at 3 h
ReviewShapes ==
    {Review("alice", 4, R(2)), Review("bob", 8, R(1)), Review("carol", 6, Rat(1, 2))}

\* the lists of up to MaxReviews reviews, each reviewer at most once
ReviewLists ==
    {l \in SeqsUpTo(ReviewShapes, MaxReviews) :
        \A i, j \in DOMAIN l : i # j => l[i] # l[j]}

\* what reviewsByPR holds for one PR: a list of reviews, or no entry
ReviewEntries ==
    {[present |-> TRUE, list |-> l] : l \in ReviewLists}
        \cup {[present |-> FALSE, list |-> <<>>]}

ReviewedPRAuthor(i) == IF i % 2 = 1 THEN "alice" ELSE "bob"

ReviewsMap(entries) ==
    [n \in {PRNumber(i) : i \in {j \in DOMAIN entries : entries[j].present}} |->
        entries[n - PRNumber(0)].list]

\* the reviews vary; the PRs are created at 1 h and merged at 5 h, by alice
\* and bob in turn
ReviewArgs ==
    {Args([i \in DOMAIN entries |-> PR(i, ReviewedPRAuthor(i), <<2, 10>>)],
          ReviewsMap(entries), 0, NoOptions) :
        entries \in SeqsUpTo(ReviewEntries, MaxReviewedPRs)}

\* additions and deletions: 0, 99, 100, 399 and 400 lines
SizeShapes ==
    {[additions |-> 0, deletions |-> 0], [additions |-> 50, deletions |-> 49],
     [additions |-> 60, deletions |-> 40], [additions |-> 300, deletions |-> 99],
     [additions |-> 400, deletions |-> 0]}

SizeMap(sizes) == [n \in {PRNumber(i) : i \in DOMAIN sizes} |-> sizes[n - PRNumber(0)]]

TwoPRs == <<PR(1, "alice", <<0, 2>>), PR(2, "bob", <<0, 8>>)>>

\* the PR-size map varies (supplied, empty included, or not supplied)
SizeArgs ==
    {Args(TwoPRs, <<>>, 0, [EmptyOptions EXCEPT !.prSizes = [has |-> TRUE, map |-> SizeMap(sizes)]]) :
        sizes \in SeqsUpTo(SizeShapes, MaxSizes)}
    \cup {Args(TwoPRs, <<>>, 0, EmptyOptions)}

WorkflowRuns(total, success) ==
    [kind |-> "value", totalRuns |-> total, successCount |-> success,
     failureCount |-> total - success]

ShipEvent(halfHours, source) == [createdAt |-> At(halfHours), source |-> source]

\* every member of the options set or not, on its own
OptionsRecords ==
    {[given |-> TRUE, prSizes |-> sz, workflowRuns |-> wf, shipEvents |-> sh,
      firstCommitDates |-> fc, periodDays |-> pd] :
        sz \in {[has |-> FALSE, map |-> <<>>], [has |-> TRUE, map |-> <<>>],
                [has |-> TRUE, map |-> SizeMap(<<[additions |-> 0, deletions |-> 0]>>)]},
        wf \in {NoOptions.workflowRuns, [NoOptions.workflowRuns EXCEPT !.kind = "null"],
                WorkflowRuns(0, 0), WorkflowRuns(3, 2), WorkflowRuns(2, 0)},
        sh \in {[has |-> FALSE, list |-> <<>>], [has |-> TRUE, list |-> <<>>],
                [has |-> TRUE, list |-> <<ShipEvent(12, "release"), ShipEvent(8, "release")>>],
                [has |-> TRUE, list |-> <<ShipEvent(1, "deployment")>>]},
        fc \in {[has |-> FALSE, map |-> <<>>], [has |-> TRUE, map |-> <<>>],
                [has |-> TRUE, map |-> (PRNumber(1) :> At(0))],
                [has |-> TRUE, map |-> (PRNumber(1) :> At(8) @@ PRNumber(2) :> At(10))]},
        pd \in {[has |-> FALSE, value |-> 0], [has |-> TRUE, value |-> 0],
                [has |-> TRUE, value |-> 7]}}

\* a review map that knows a PR no list holds
StrayReviews == PRNumber(1) :> <<Review("bob", 4, R(2))>>

\* the empty PR list, with and without options
EmptyArgs ==
    {Args(<<>>, reviews, open, options) :
        reviews \in {<<>>, StrayReviews}, open \in OpenCounts \cup {7},
        options \in OptionsRecords \cup {NoOptions}}

\* two PRs with every options record
OptionsArgs ==
    {Args(TwoPRs, PRNumber(2) :> <<Review("carol", 6, R(1))>>, 3, options) :
        options \in OptionsRecords}

\* the workflow-run summary varies: every count of runs up to MaxRuns with
\* every count of successes, for the empty PR list and for two PRs
BuildArgs ==
    {Args(shape[1], <<>>, 0,
          [EmptyOptions EXCEPT !.workflowRuns = WorkflowRuns(shape[2], shape[3])]) :
        shape \in {x \in {<<>>, TwoPRs} \X (0..MaxRuns) \X (0..MaxRuns) : x[3] <= x[2]}}

\* deployments and releases, not in the order of their times
ShipShapes ==
    {ShipEvent(20, "deployment"), ShipEvent(8, "release"), ShipEvent(12, "deployment"),
     ShipEvent(4, "release")}

\* periodDays: not supplied, 0, 1, 7, 14 and 30 days
PeriodDaysValues ==
    {[has |-> FALSE, value |-> 0]} \cup {[has |-> TRUE, value |-> d] : d \in {0, 1, 7, 14, 30}}

\* the ship-event list and the period length vary
ShipArgs ==
    {Args(shape[1], <<>>, 0,
          [EmptyOptions EXCEPT !.shipEvents = [has |-> TRUE, list |-> shape[2]],
                               !.periodDays = shape[3]]) :
        shape \in {<<>>, TwoPRs} \X SeqsUpTo(ShipShapes, MaxShipEvents) \X PeriodDaysValues}

\* mergedAt and the first-commit date (-1: none) of a PR created at 0:
\* merged at an event's time, between events, after every event; a first
\* commit after the events that follow the merge; no first commit known
LeadShapes == {<<8, 2>>, <<10, 2>>, <<10, 16>>, <<24, 2>>, <<10, -1>>}

\* ship events at 10 h, 4 h and 6 h, in that order when all are supplied
LeadShipShapes ==
    {ShipEvent(20, "deployment"), ShipEvent(8, "release"), ShipEvent(12, "deployment")}

FirstCommitMap(shapes) ==
    [n \in {PRNumber(i) : i \in {j \in DOMAIN shapes : shapes[j][2] >= 0}} |->
        At(shapes[n - PRNumber(0)][2])]

\* the merge times, the first-commit dates and the ship events vary
LeadArgs ==
    {Args([i \in DOMAIN shape[1] |-> PR(i, "alice", <<0, shape[1][i][1]>>)], <<>>, 0,
          [EmptyOptions EXCEPT
              !.shipEvents = [has |-> TRUE, list |-> shape[2]],
              !.firstCommitDates = [has |-> TRUE, map |-> FirstCommitMap(shape[1])]]) :
        shape \in SeqsUpTo(LeadShapes, MaxShippedPRs)
                    \X SeqsUpTo(LeadShipShapes, MaxShipEvents)}

\* measured zeros: a PR of no changed line, shipped by a release at the very
\* time of its first commit and of its merge, and three workflow runs none of
\* which succeeded (or two of them)
ZeroArgs ==
    {Args(<<PR(1, "alice", <<8, 8>>)>>, <<>>, 0,
          [EmptyOptions EXCEPT
              !.prSizes = [has |-> TRUE, map |-> SizeMap(<<[additions |-> 0, deletions |-> 0]>>)],
              !.workflowRuns = WorkflowRuns(3, success),
              !.shipEvents = [has |-> TRUE, list |-> <<ShipEvent(8, "release")>>],
              !.firstCommitDates = [has |-> TRUE, map |-> [n \in {PRNumber(1)} |-> At(8)]]]) :
        success \in {0, 2}}

\* getReviews: commentCount is 1 for a review with a body and 0 without, and
\* every review by a known author gets its share of the PR's inline comments
\* added.  A shape is <<author, submittedAt in half hours, 1 for a body>>.
ClientReviews(shapes, inlineCommentCount) ==
    LET perReview == Fl(Rat(inlineCommentCount, Len(shapes)))
    IN  [i \in DOMAIN shapes |->
            Review(shapes[i][1], shapes[i][2],
                   IF inlineCommentCount > 0 THEN FAdd(R(shapes[i][3]), perReview)
                   ELSE R(shapes[i][3]))]

\* a PR of dave with reviews by alice, bob and carol, some of them with a
\* body, and one, two, four or five inline comments shared among the three
FractionArgs ==
    {Args(<<PR(1, "dave", <<2, 10>>)>>,
          PRNumber(1) :> ClientReviews(<<<<"alice", 4, bodies[1]>>, <<"bob", 8, bodies[2]>>,
                                         <<"carol", 6, bodies[3]>>>>, inline),
          0, NoOptions) :
        bodies \in [1..3 -> {0, 1}], inline \in {1, 2, 4, 5}}

InitAgg ==
    /\ pc = {}
    /\ args \in TimingArgs \cup LongArgs \cup ReviewArgs \cup SizeArgs
                    \cup EmptyArgs \cup OptionsArgs \cup BuildArgs
                    \cup ShipArgs \cup LeadArgs \cup ZeroArgs
    /\ result = NoMetrics
    /\ metrics = NoMetrics
    /\ thresholds = DefaultThresholds
    /\ insights = <<>>
    /\ health = "none"
    /\ supplied = Supplied(args, metrics, thresholds)
    /\ round = 1
    /\ NoRun
    /\ NoPool

CallCalculateMetrics ==
    /\ "calculateMetrics" \notin pc
    /\ result' = calculateMetrics(args.pullRequests, args.reviewsByPR,
                                  args.openPRCount, args.options)
    /\ args' = ArgsAfterCall(args)
    /\ pc' = pc \cup {"calculateMetrics"}
    /\ UNCHANGED <<metrics, thresholds, insights, health, supplied, round>>
    /\ UNCHANGED runVars
    /\ UNCHANGED poolVars

NextAgg == CallCalculateMetrics

SpecAgg == InitAgg /\ [][NextAgg]_vars

\* calculateMetrics called with the inputs of InitAgg and with review lists
\* as getReviews builds them
InitOrder ==
    /\ pc = {}
    /\ args \in TimingArgs \cup LongArgs \cup ReviewArgs \cup SizeArgs
                    \cup EmptyArgs \cup OptionsArgs \cup BuildArgs
                    \cup ShipArgs \cup LeadArgs \cup ZeroArgs \cup FractionArgs
    /\ result = NoMetrics
    /\ metrics = NoMetrics
    /\ thresholds = DefaultThresholds
    /\ insights = <<>>
    /\ health = "none"
    /\ supplied = Supplied(args, metrics, thresholds)
    /\ round = 1
    /\ NoRun
    /\ NoPool

SpecOrder == InitOrder /\ [][NextAgg]_vars


(***************************************************************************)
(* Claims about the evaluator (checked under SpecEval)                     *)
(***************************************************************************)
DetectCalled == "detectInsights" \in pc
HealthCalled == "getHealthEmoji" \in pc

\* severity a is at least as high as severity b: critical over warning over info
AtLeastAsSevere(a, b) ==
    \/ a = "critical"
    \/ a = "warning" /\ b \in {"warning", "info"}
    \/ a = "info" /\ b = "info"

\* the insights the rules fired on the current metrics and thresholds
Fired == Range(PushedInsights(metrics, thresholds))

\* C1: detectInsights returns a list of length 0 or 1; the list is empty
\* exactly when no rule fires, and otherwise holds an insight of a fired rule
\* whose severity is the highest among all fired rules.
C1_AtMostOneMostSevere ==
    DetectCalled =>
        /\ Len(insights) \in {0, 1}
        /\ (insights = <<>>) <=> (Fired = {})
        /\ insights # <<>> =>
              /\ insights[1] \in Fired
              /\ \A f \in Fired : AtLeastAsSevere(insights[1].severity, f.severity)

\* C1 witness: rules of three different severities fired and the critical one
\* was returned
C1_Witness ==
    /\ DetectCalled
    /\ {f.severity : f \in Fired} = {"critical", "warning", "info"}
    /\ Len(insights) = 1
    /\ insights[1].severity = "critical"

\* the WIP ratio as the claim states it
ClaimWipRatio ==
    IF metrics.collaboratorCount = R(0) THEN R(0)
    ELSE RDiv(metrics.wipCount, metrics.collaboratorCount)

BuildBelow(cutoff) ==
    metrics.buildSuccessRate # Null /\ RLt(metrics.buildSuccessRate, cutoff)

ClaimCritical ==
    \/ RGe(metrics.cycleTimeMedianHours, thresholds.cycleTimeCriticalHours)
    \/ RGe(ClaimWipRatio, thresholds.wipCriticalRatio)
    \/ BuildBelow(thresholds.buildSuccessCritical)

ClaimWarning ==
    \/ RGe(metrics.cycleTimeMedianHours, thresholds.cycleTimeWarningHours)
    \/ RGe(ClaimWipRatio, thresholds.wipWarningRatio)
    \/ RGe(metrics.concentrationRatio, thresholds.concentrationWarning)
    \/ BuildBelow(thresholds.buildSuccessWarning)

\* C2: getHealthEmoji returns critical iff the cycle-time median, the WIP
\* ratio or a present build rate meets its critical cutoff; otherwise warning
\* iff cycle time, WIP ratio, concentration or a present build rate meets its
\* warning cutoff; otherwise healthy.  A critical cycle time gives critical
\* whatever the other signals are.
C2_HealthStatus ==
    HealthCalled =>
        /\ health = "critical" <=> ClaimCritical
        /\ health = "warning" <=> (~ClaimCritical /\ ClaimWarning)
        /\ health = "healthy" <=> (~ClaimCritical /\ ~ClaimWarning)
        /\ RGe(metrics.cycleTimeMedianHours, thresholds.cycleTimeCriticalHours)
              => health = "critical"

\* C2 witness: the status is warning on the build rate alone, a rate present
\* and equal to the critical cutoff (so not below it)
C2_Witness ==
    /\ HealthCalled
    /\ health = "warning"
    /\ metrics.buildSuccessRate = thresholds.buildSuccessCritical
    /\ ~RGe(metrics.cycleTimeMedianHours, thresholds.cycleTimeWarningHours)
    /\ ~RGe(ClaimWipRatio, thresholds.wipWarningRatio)
    /\ ~RGe(metrics.concentrationRatio, thresholds.concentrationWarning)

\* no signal that getHealthEmoji reads is at its warning or critical cutoff
NoStatusCondition ==
    /\ ~RGe(metrics.cycleTimeMedianHours, thresholds.cycleTimeWarningHours)
    /\ ~RGe(metrics.cycleTimeMedianHours, thresholds.cycleTimeCriticalHours)
    /\ ~RGe(ClaimWipRatio, thresholds.wipWarningRatio)
    /\ ~RGe(ClaimWipRatio, thresholds.wipCriticalRatio)
    /\ ~RGe(metrics.concentrationRatio, thresholds.concentrationWarning)
    /\ ~BuildBelow(thresholds.buildSuccessWarning)
    /\ ~BuildBelow(thresholds.buildSuccessCritical)

Calculated == "calculateMetrics" \in pc

PRs == args.pullRequests

\* the k-th smallest value (k from 1) of a sample v, a function on a finite set
KthSmallest(v, k) ==
    CHOOSE x \in {v[i] : i \in DOMAIN v} :
        /\ Cardinality({i \in DOMAIN v : RLt(v[i], x)}) < k
        /\ k <= Cardinality({i \in DOMAIN v : RLe(v[i], x)})

\* the median of a sample: the centre element, or the average of the two
\* centre elements; 0 for the empty sample
SampleMedian(v) ==
    LET n == Cardinality(DOMAIN v)
    IN  IF n = 0 THEN R(0)
        ELSE IF n % 2 = 1 THEN KthSmallest(v, (n + 1) \div 2)
        ELSE RDivInt(RAdd(KthSmallest(v, n \div 2), KthSmallest(v, (n \div 2) + 1)), 2)

RECURSIVE SampleSum(_)
SampleSum(v) ==
    IF DOMAIN v = {} THEN R(0)
    ELSE LET k == CHOOSE x \in DOMAIN v : TRUE
         IN  RAdd(v[k], SampleSum([x \in DOMAIN v \ {k} |-> v[x]]))

\* mergedAt - createdAt in hours, per PR
CycleHours == [i \in DOMAIN PRs |-> Rat(PRs[i].mergedAt - PRs[i].createdAt, 3600000)]

NullOptionalFields ==
    /\ result.prSizeMedian = Null /\ result.prSizeCategory = "null"
    /\ result.buildSuccessRate = Null /\ result.buildTotalRuns = Null
    /\ result.shipFrequency = Null /\ result.shipCount = Null
    /\ result.shipSource = "null"
    /\ result.leadTimeMedianHours = Null

\* C4: for an empty PR list calculateMetrics returns a record whose cycle-time
\* median and P90, throughput, review turnaround, collaborator count,
\* concentration ratio and review depth are all 0, whose prNumbers is empty and
\* whose wipCount is the supplied open-PR count, whatever the review map and
\* the options; with the options argument omitted every optional field is null.
C4_EmptyInputDefaults ==
    Calculated =>
        /\ PRs = <<>> =>
              /\ result.cycleTimeMedianHours = R(0)
              /\ result.cycleTimeP90Hours = R(0)
              /\ result.throughputCount = R(0)
              /\ result.reviewTurnaroundMedianHours = R(0)
              /\ result.collaboratorCount = R(0)
              /\ result.concentrationRatio = R(0)
              /\ result.reviewDepthScore = R(0)
              /\ result.prNumbers = <<>>
              /\ result.wipCount = args.openPRCount
        /\ ~args.options.given => NullOptionalFields

\* C4 witness: the empty PR list with a review map that is not empty, a
\* positive open-PR count and options that give a PR size and ship events
C4_Witness ==
    /\ Calculated
    /\ PRs = <<>>
    /\ DOMAIN args.reviewsByPR # {}
    /\ args.openPRCount = R(7)
    /\ result.wipCount = R(7)
    /\ args.options.given
    /\ result.prSizeMedian # Null
    /\ result.shipCount # Null

\* C5: for a PR list that is not empty cycleTimeMedianHours is the median of
\* the per-PR hours from createdAt to mergedAt (the centre element of the
\* sorted values for an odd count, the average of the two centre elements for
\* an even count) and lies between the smallest and the largest of them; for
\* the empty list it is 0.
C5_CycleTimeMedian ==
    Calculated =>
        /\ result.cycleTimeMedianHours = SampleMedian(CycleHours)
        /\ \A i \in DOMAIN PRs :
              /\ RLe(KthSmallest(CycleHours, 1), result.cycleTimeMedianHours)
              /\ RLe(result.cycleTimeMedianHours, KthSmallest(CycleHours, Len(PRs)))

\* C5 witness: an even number of PRs, not in ascending order, whose two centre
\* values differ, so that the median is the value of no PR
C5_Witness ==
    /\ Calculated
    /\ Len(PRs) = 2
    /\ RLt(CycleHours[2], CycleHours[1])
    /\ \A i \in DOMAIN PRs : result.cycleTimeMedianHours # CycleHours[i]

\* the least integer not below 9 n / 10
CeilNineTenths(n) == CHOOSE k \in 0..n : 10 * k >= 9 * n /\ 10 * (k - 1) < 9 * n

\* C6: for n > 0 PRs cycleTimeP90Hours is the element at index
\* max(0, ceil(0.9 n) - 1) of the ascending cycle times (the largest for three
\* PRs); for the empty list it is 0.
C6_CycleTimeP90 ==
    Calculated =>
        LET n == Len(PRs)
            index == IF CeilNineTenths(n) - 1 > 0 THEN CeilNineTenths(n) - 1 ELSE 0
        IN  /\ n = 0 => result.cycleTimeP90Hours = R(0)
            /\ n > 0 => result.cycleTimeP90Hours = KthSmallest(CycleHours, index + 1)
            /\ n = 3 => result.cycleTimeP90Hours = KthSmallest(CycleHours, 3)

\* C6 witness: a list long enough for the index to fall below the top: the
\* P90 is smaller than the largest cycle time
C6_Witness ==
    /\ Calculated
    /\ Len(PRs) >= 10
    /\ RLt(result.cycleTimeP90Hours, KthSmallest(CycleHours, Len(PRs)))

\* the reviews of PR i as the map gives them (none when the map has no entry)
ReviewsOf(i) ==
    IF PRs[i].number \in DOMAIN args.reviewsByPR
    THEN args.reviewsByPR[PRs[i].number] ELSE <<>>

\* the positions of the reviews of PR i by someone other than its author
NonSelf(i) == {j \in DOMAIN ReviewsOf(i) : ReviewsOf(i)[j].author # PRs[i].author}

\* the PRs with at least one such review
Reviewed == {i \in DOMAIN PRs : NonSelf(i) # {}}

\* hours from createdAt to the earliest review by someone else, per reviewed PR
FirstReviewHours ==
    [i \in Reviewed |->
        LET first == CHOOSE j \in NonSelf(i) : \A k \in NonSelf(i) :
                         ReviewsOf(i)[j].submittedAt <= ReviewsOf(i)[k].submittedAt
        IN  Rat(ReviewsOf(i)[first].submittedAt - PRs[i].createdAt, 3600000)]

\* C7: reviewTurnaroundMedianHours is the median of the sample that holds, for
\* each PR with a review by someone other than its author, the hours from
\* createdAt to the earliest such review; a PR with no such review adds no
\* value; the empty sample gives 0.
C7_ReviewTurnaround ==
    Calculated => result.reviewTurnaroundMedianHours = SampleMedian(FirstReviewHours)

\* C7 witness: one PR has only a review by its author, another lists a later
\* review by someone else before the earliest one, and the median is that of
\* the one sample value
C7_Witness ==
    /\ Calculated
    /\ \E i \in DOMAIN PRs : ReviewsOf(i) # <<>> /\ NonSelf(i) = {}
    /\ \E i \in Reviewed :
          /\ Reviewed = {i}
          /\ \E j, k \in NonSelf(i) :
                j < k /\ ReviewsOf(i)[k].submittedAt < ReviewsOf(i)[j].submittedAt
    /\ RLt(R(0), result.reviewTurnaroundMedianHours)

\* the comments of the reviews of PR i by someone other than its author
NonSelfComments(i) == SampleSum([j \in NonSelf(i) |-> ReviewsOf(i)[j].commentCount])

\* C8: reviewDepthScore is the sum, over the PRs with a review by someone
\* else, of the comment counts of those reviews, divided by the number of
\* such PRs; comments of the author's own reviews are not added; 0 when no PR
\* has such a review.
C8_ReviewDepth ==
    Calculated =>
        result.reviewDepthScore =
            IF Reviewed = {} THEN R(0)
            ELSE RDivInt(SampleSum([i \in Reviewed |-> NonSelfComments(i)]),
                         Cardinality(Reviewed))

\* C8 witness: two PRs, one reviewed by its author (with comments) and by
\* someone else, one with no review by someone else; the score is not 0
C8_Witness ==
    /\ Calculated
    /\ Len(PRs) = 2
    /\ Cardinality(Reviewed) = 1
    /\ \E i \in Reviewed : \E j \in DOMAIN ReviewsOf(i) :
          j \notin NonSelf(i) /\ RLt(R(0), ReviewsOf(i)[j].commentCount)
    /\ RLt(R(0), result.reviewDepthScore)

PRAuthors == {PRs[i].author : i \in DOMAIN PRs}

PRsBy(a) == Cardinality({i \in DOMAIN PRs : PRs[i].author = a})

\* C9: concentrationRatio is the largest number of PRs of one author divided
\* by the number of PRs (0 for the empty list) and collaboratorCount is the
\* number of distinct authors; one contributor gives 1, N PRs by N authors 1/N.
C9_Concentration ==
    Calculated =>
        /\ result.collaboratorCount = R(Cardinality(PRAuthors))
        /\ PRs = <<>> => result.concentrationRatio = R(0)
        /\ PRs # <<>> =>
              \E a \in PRAuthors :
                  /\ \A b \in PRAuthors : PRsBy(b) <= PRsBy(a)
                  /\ result.concentrationRatio = Rat(PRsBy(a), Len(PRs))
        /\ Cardinality(PRAuthors) = 1 => result.concentrationRatio = R(1)
        /\ (PRs # <<>> /\ Cardinality(PRAuthors) = Len(PRs))
              => result.concentrationRatio = <<1, Len(PRs)>>

\* C9 witness: three PRs, two of them by one author
C9_Witness ==
    /\ Calculated
    /\ Len(PRs) = 3
    /\ result.collaboratorCount = R(2)
    /\ result.concentrationRatio = <<2, 3>>

SizesGiven ==
    /\ args.options.given
    /\ args.options.prSizes.has
    /\ DOMAIN args.options.prSizes.map # {}

\* additions + deletions, per entry of the size map
SizeSample ==
    [n \in DOMAIN args.options.prSizes.map |->
        R(args.options.prSizes.map[n].additions + args.options.prSizes.map[n].deletions)]

\* C10: with a PR-size map that is not empty prSizeMedian is the median of
\* additions + deletions per PR and prSizeCategory is small below 100, medium
\* from 100 to below 400, large from 400; with no size data, or an empty map,
\* both are null.
C10_PrSize ==
    Calculated =>
        /\ SizesGiven =>
              /\ result.prSizeMedian = SampleMedian(SizeSample)
              /\ result.prSizeCategory =
                    IF RLt(result.prSizeMedian, R(100)) THEN "small"
                    ELSE IF RLt(result.prSizeMedian, R(400)) THEN "medium"
                    ELSE "large"
        /\ ~SizesGiven =>
              result.prSizeMedian = Null /\ result.prSizeCategory = "null"

\* C10 witness: a median of exactly 100 lines, reported as medium
C10_Witness ==
    /\ Calculated
    /\ SizesGiven
    /\ result.prSizeMedian = R(100)
    /\ result.prSizeCategory = "medium"

WorkflowSummary == args.options.workflowRuns

\* the summary is there and counts at least one run
RunsCounted ==
    args.options.given /\ WorkflowSummary.kind = "value" /\ WorkflowSummary.totalRuns # 0

\* C11: buildSuccessRate and buildTotalRuns are both null when the workflow-run
\* summary is absent, null or has totalRuns = 0; otherwise buildTotalRuns is
\* totalRuns and buildSuccessRate is an integer nearest to
\* successCount / totalRuns * 100 (no further from it than a half); 2 of 3
\* runs give 67.
C11_BuildSuccess ==
    Calculated =>
        IF RunsCounted
        THEN /\ result.buildTotalRuns = R(WorkflowSummary.totalRuns)
             /\ result.buildSuccessRate # Null
             /\ result.buildSuccessRate[2] = 1
             /\ 2 * Abs(result.buildSuccessRate[1] * WorkflowSummary.totalRuns
                           - 100 * WorkflowSummary.successCount)
                    <= WorkflowSummary.totalRuns
             /\ (WorkflowSummary.totalRuns = 3 /\ WorkflowSummary.successCount = 2)
                    => result.buildSuccessRate = R(67)
        ELSE result.buildSuccessRate = Null /\ result.buildTotalRuns = Null

\* C11 witness: 2 successes of 3 runs give 67 of 3 runs
C11_Witness ==
    /\ Calculated
    /\ RunsCounted
    /\ WorkflowSummary.totalRuns = 3 /\ WorkflowSummary.successCount = 2
    /\ result.buildSuccessRate = R(67)
    /\ result.buildTotalRuns = R(3)

ShipList == args.options.shipEvents.list

\* the ship-event list is supplied and not empty
ShipsGiven == args.options.given /\ args.options.shipEvents.has /\ ShipList # <<>>

NullShipFields ==
    /\ result.shipFrequency = Null /\ result.shipCount = Null
    /\ result.shipSource = "null"

\* shipCount and shipSource of a list that is not empty, and shipFrequency as
\* shipCount / days (a quotient by 0 is no number, and equals none)
ShipFieldsOver(days) ==
    /\ result.shipCount = R(Len(ShipList))
    /\ result.shipSource = ShipList[1].source
    /\ result.shipFrequency # Null
    /\ result.shipFrequency[1] * days = Len(ShipList) * result.shipFrequency[2]

\* C12 as stated: for a ship-event list that is not empty shipCount is its
\* length, shipSource the source of its first element as supplied and
\* shipFrequency = shipCount / periodDays, periodDays being the supplied period
\* length, and 14 when none is supplied; for an empty or missing list the
\* three fields are null.
C12_ShipFrequencySupplied ==
    Calculated =>
        IF ShipsGiven
        THEN ShipFieldsOver(IF args.options.periodDays.has
                            THEN args.options.periodDays.value ELSE 14)
        ELSE NullShipFields

\* C12 amended: the same, with 14 days also when the supplied period length
\* is 0.
C12_ShipFrequency ==
    Calculated =>
        IF ShipsGiven
        THEN ShipFieldsOver(IF args.options.periodDays.has
                               /\ args.options.periodDays.value # 0
                            THEN args.options.periodDays.value ELSE 14)
        ELSE NullShipFields

\* C12 witness: three events whose first as supplied is not the earliest and
\* whose sources differ, over a supplied period of 0 days: 3 / 14 a day
C12_Witness ==
    /\ Calculated
    /\ ShipsGiven
    /\ Len(ShipList) = 3
    /\ ShipList[1].source = "deployment" /\ ShipList[3].source = "release"
    /\ ShipList[1].createdAt > ShipList[2].createdAt
    /\ args.options.periodDays.has /\ args.options.periodDays.value = 0
    /\ result.shipSource = "deployment"
    /\ result.shipFrequency = Rat(3, 14)

FirstCommits == args.options.firstCommitDates.map

\* both the ship events and the first-commit dates are supplied and not empty
LeadDataGiven ==
    ShipsGiven /\ args.options.firstCommitDates.has /\ DOMAIN FirstCommits # {}

\* the events at or after the merge of PR i
EventsFromMerge(i) == {j \in DOMAIN ShipList : ShipList[j].createdAt >= PRs[i].mergedAt}

\* the time of the earliest of them
ShipTime(i) ==
    CHOOSE t \in {ShipList[j].createdAt : j \in EventsFromMerge(i)} :
        \A j \in EventsFromMerge(i) : t <= ShipList[j].createdAt

\* the PRs that yield a value: a first-commit date, an event at or after the
\* merge, and that event not before the first commit
Shipped ==
    {i \in DOMAIN PRs :
        /\ PRs[i].number \in DOMAIN FirstCommits
        /\ EventsFromMerge(i) # {}
        /\ ShipTime(i) >= FirstCommits[PRs[i].number]}

\* first commit to ship in hours, per PR that yields a value
LeadHours == [i \in Shipped |-> Rat(ShipTime(i) - FirstCommits[PRs[i].number], 3600000)]

\* C13: leadTimeMedianHours is computed only when the ship events and the
\* first-commit dates are both supplied and not empty. Each PR with a
\* first-commit date uses the earliest event at or after its mergedAt (never an
\* event before the merge; an event at the merge qualifies); its value is the
\* hours from first commit to that event, values below 0 are dropped, and the
\* result is the median of the values left. With no value, or with either
\* dataset empty or missing, the result is null.
C13_LeadTime ==
    Calculated =>
        IF LeadDataGiven /\ Shipped # {}
        THEN result.leadTimeMedianHours = SampleMedian(LeadHours)
        ELSE result.leadTimeMedianHours = Null

\* C13 witness: two PRs yield values, one merged exactly at the time of an
\* event and one with an event before its merge that no first commit follows;
\* the events are supplied out of time order
C13_Witness ==
    /\ Calculated
    /\ LeadDataGiven
    /\ Cardinality(Shipped) = 2
    /\ \E i \in Shipped : ShipTime(i) = PRs[i].mergedAt
    /\ \E i \in Shipped : \E j \in DOMAIN ShipList :
            /\ ShipList[j].createdAt < PRs[i].mergedAt
            /\ ShipList[j].createdAt >= FirstCommits[PRs[i].number]
    /\ \E j \in DOMAIN ShipList : j > 1 /\ ShipList[j].createdAt < ShipList[1].createdAt
    /\ result.leadTimeMedianHours = R(4)

(***************************************************************************)
(* Claims about the rules of detectInsights (checked under SpecEval)       *)
(*                                                                         *)
(* The conditions of the rules are stated here on the metrics and the      *)
(* thresholds, as the rule table gives them.                               *)
(***************************************************************************)
ThroughputPositive == RLt(R(0), metrics.throughputCount)

DepthAtMost(cutoff) == ThroughputPositive /\ RLe(metrics.reviewDepthScore, cutoff)

SizeAtLeast(cutoff) == metrics.prSizeMedian # Null /\ RGe(metrics.prSizeMedian, cutoff)

LeadAtLeast(hours) ==
    metrics.leadTimeMedianHours # Null /\ RGe(metrics.leadTimeMedianHours, R(hours))

\* a rule is silent when its value meets neither of its cutoffs
SiloSilent ==
    /\ ~RGe(metrics.concentrationRatio, thresholds.concentrationWarning)
    /\ ~RGe(metrics.concentrationRatio, thresholds.concentrationCritical)
CycleSilent ==
    /\ ~RGe(metrics.cycleTimeMedianHours, thresholds.cycleTimeWarningHours)
    /\ ~RGe(metrics.cycleTimeMedianHours, thresholds.cycleTimeCriticalHours)
WipSilent ==
    /\ ~RGe(ClaimWipRatio, thresholds.wipWarningRatio)
    /\ ~RGe(ClaimWipRatio, thresholds.wipCriticalRatio)
ReviewSilent ==
    /\ ~RGe(metrics.reviewTurnaroundMedianHours, thresholds.reviewWarningHours)
    /\ ~RGe(metrics.reviewTurnaroundMedianHours, thresholds.reviewCriticalHours)
DepthSilent ==
    ~DepthAtMost(thresholds.reviewDepthWarning) /\ ~DepthAtMost(thresholds.reviewDepthCritical)
SizeSilent ==
    ~SizeAtLeast(thresholds.prSizeWarning) /\ ~SizeAtLeast(thresholds.prSizeCritical)
BuildSilent ==
    ~BuildBelow(thresholds.buildSuccessWarning) /\ ~BuildBelow(thresholds.buildSuccessCritical)
LeadSilent == ~LeadAtLeast(168)

\* every rule but the review-depth rule is silent, and every rule but the
\* PR-size rule
AllButDepthSilent ==
    /\ SiloSilent /\ CycleSilent /\ WipSilent /\ ReviewSilent
    /\ SizeSilent /\ BuildSilent /\ LeadSilent
AllButSizeSilent ==
    /\ SiloSilent /\ CycleSilent /\ WipSilent /\ ReviewSilent
    /\ DepthSilent /\ BuildSilent /\ LeadSilent

Returned(type, severity) == insights = <<Insight(type, severity)>>

ReturnedAtLeast(severity) ==
    insights # <<>> /\ AtLeastAsSevere(insights[1].severity, severity)

\* a met condition of the Critical column contributes an insight: of
\* severity critical for concentration, cycle time, WIP ratio, review
\* turnaround and build rate, and of the given severity for review depth and
\* PR size, which is the insight returned when no other rule fires
CriticalColumn(depthAndSize) ==
    DetectCalled =>
        /\ RGe(metrics.concentrationRatio, thresholds.concentrationCritical)
              => ReturnedAtLeast("critical")
        /\ RGe(metrics.cycleTimeMedianHours, thresholds.cycleTimeCriticalHours)
              => ReturnedAtLeast("critical")
        /\ RGe(ClaimWipRatio, thresholds.wipCriticalRatio) => ReturnedAtLeast("critical")
        /\ RGe(metrics.reviewTurnaroundMedianHours, thresholds.reviewCriticalHours)
              => ReturnedAtLeast("critical")
        /\ BuildBelow(thresholds.buildSuccessCritical) => ReturnedAtLeast("critical")
        /\ DepthAtMost(thresholds.reviewDepthCritical)
              => /\ Insight("shallow-reviews", depthAndSize) \in Fired
                 /\ ReturnedAtLeast(depthAndSize)
                 /\ AllButDepthSilent => Returned("shallow-reviews", depthAndSize)
        /\ SizeAtLeast(thresholds.prSizeCritical)
              => /\ Insight("large-prs", depthAndSize) \in Fired
                 /\ ReturnedAtLeast(depthAndSize)
                 /\ AllButSizeSilent => Returned("large-prs", depthAndSize)

\* C14 as stated: a rule whose Critical condition in the rule table is met
\* contributes a critical insight; a review depth at or below
\* reviewDepthCritical (throughput > 0) and a PR-size median at or above
\* prSizeCritical yield a critical insight, which is the returned one when no
\* other rule fires.
C14_CriticalConditionCritical == CriticalColumn("critical")

\* C14 amended: the same for concentration, cycle time, WIP ratio, review
\* turnaround and build rate; the review-depth and the PR-size rule yield a
\* warning insight on their Critical condition, and the returned insight has
\* severity warning when no other rule fires.
C14_CriticalConditionSeverity == CriticalColumn("warning")

\* C14 witness: the PR-size median is at prSizeCritical, every other rule is
\* silent, and the large-prs insight returned is a warning
C14_Witness ==
    /\ DetectCalled
    /\ SizeAtLeast(thresholds.prSizeCritical)
    /\ AllButSizeSilent
    /\ Returned("large-prs", "warning")

NoneReturned(type) == insights = <<>> \/ insights[1].type # type

\* C15: with every other rule silent, detectInsights returns a shallow-reviews
\* insight of severity warning when throughputCount > 0 and reviewDepthScore
\* <= reviewDepthCritical (a score of 0 included), of severity info when
\* throughputCount > 0 and reviewDepthCritical < reviewDepthScore <=
\* reviewDepthWarning, and no shallow-reviews insight when throughputCount = 0.
C15_ShallowReviews ==
    (DetectCalled /\ AllButDepthSilent) =>
        /\ DepthAtMost(thresholds.reviewDepthCritical)
              => Returned("shallow-reviews", "warning")
        /\ (/\ ThroughputPositive
            /\ RLt(thresholds.reviewDepthCritical, metrics.reviewDepthScore)
            /\ RLe(metrics.reviewDepthScore, thresholds.reviewDepthWarning))
              => Returned("shallow-reviews", "info")
        /\ metrics.throughputCount = R(0)
              => NoneReturned("shallow-reviews") /\ insights = <<>>

\* C15 witness: a score of exactly 0 with throughput > 0, every other rule
\* silent, returned as a shallow-reviews warning
C15_Witness ==
    /\ DetectCalled
    /\ AllButDepthSilent
    /\ ThroughputPositive
    /\ metrics.reviewDepthScore = R(0)
    /\ Returned("shallow-reviews", "warning")

NoCollaborators == metrics.collaboratorCount = R(0)

PositiveWipCutoffs ==
    RLt(R(0), thresholds.wipWarningRatio) /\ RLt(R(0), thresholds.wipCriticalRatio)

\* the status that cycle time, concentration and build rate give on their own
StatusWithoutWip ==
    IF \/ RGe(metrics.cycleTimeMedianHours, thresholds.cycleTimeCriticalHours)
       \/ BuildBelow(thresholds.buildSuccessCritical)
    THEN "critical"
    ELSE IF \/ RGe(metrics.cycleTimeMedianHours, thresholds.cycleTimeWarningHours)
            \/ RGe(metrics.concentrationRatio, thresholds.concentrationWarning)
            \/ BuildBelow(thresholds.buildSuccessWarning)
    THEN "warning"
    ELSE "healthy"

\* C16: the WIP rule uses wipCount / collaboratorCount, taken as 0 for no
\* collaborators: it fires a critical wip-overload insight iff the ratio is at
\* or above wipCriticalRatio, else a warning one iff it is at or above
\* wipWarningRatio.  With no collaborators and positive WIP cutoffs no
\* wip-overload insight is fired or returned, and the status getHealthEmoji
\* returns is the one the other signals give, whatever wipCount is.
C16_WipRule ==
    /\ DetectCalled =>
          /\ Insight("wip-overload", "critical") \in Fired
                <=> RGe(ClaimWipRatio, thresholds.wipCriticalRatio)
          /\ Insight("wip-overload", "warning") \in Fired
                <=> /\ ~RGe(ClaimWipRatio, thresholds.wipCriticalRatio)
                    /\ RGe(ClaimWipRatio, thresholds.wipWarningRatio)
          /\ Insight("wip-overload", "info") \notin Fired
          /\ (SiloSilent /\ CycleSilent
                  /\ ReviewSilent /\ DepthSilent /\ SizeSilent /\ BuildSilent /\ LeadSilent)
                => (/\ RGe(ClaimWipRatio, thresholds.wipCriticalRatio)
                        => Returned("wip-overload", "critical")
                    /\ WipSilent => insights = <<>>)
          /\ (NoCollaborators /\ PositiveWipCutoffs)
                => /\ \A f \in Fired : f.type # "wip-overload"
                   /\ NoneReturned("wip-overload")
    /\ (HealthCalled /\ NoCollaborators /\ PositiveWipCutoffs)
          => health = StatusWithoutWip

\* C16 witness: 10 open PRs and no collaborators, both functions called: no
\* insight at all, and a healthy status
C16_Witness ==
    /\ DetectCalled /\ HealthCalled
    /\ NoCollaborators /\ PositiveWipCutoffs
    /\ metrics.wipCount = R(10)
    /\ insights = <<>>
    /\ health = "healthy"

\* a value at a cutoff makes the rule fire at the severity of that cutoff;
\* read loosely, the rule may fire above that severity when the value also
\* meets the rule's other cutoff
AtCutoff(type, at, severity, meetsOther, literal) ==
    at => \/ Insight(type, severity) \in Fired
          \/ /\ ~literal
             /\ meetsOther
             /\ \E f \in Fired : f.type = type /\ AtLeastAsSevere(f.severity, severity)

\* the rules that compare with >= or <=, each value at each of its cutoffs
InclusiveAtCutoffs(literal) ==
    /\ AtCutoff("knowledge-silo",
                metrics.concentrationRatio = thresholds.concentrationCritical,
                "critical", FALSE, literal)
    /\ AtCutoff("knowledge-silo",
                metrics.concentrationRatio = thresholds.concentrationWarning, "warning",
                RGe(metrics.concentrationRatio, thresholds.concentrationCritical), literal)
    /\ AtCutoff("cycle-time-regression",
                metrics.cycleTimeMedianHours = thresholds.cycleTimeCriticalHours,
                "critical", FALSE, literal)
    /\ AtCutoff("cycle-time-regression",
                metrics.cycleTimeMedianHours = thresholds.cycleTimeWarningHours, "warning",
                RGe(metrics.cycleTimeMedianHours, thresholds.cycleTimeCriticalHours), literal)
    /\ AtCutoff("wip-overload", ClaimWipRatio = thresholds.wipCriticalRatio,
                "critical", FALSE, literal)
    /\ AtCutoff("wip-overload", ClaimWipRatio = thresholds.wipWarningRatio, "warning",
                RGe(ClaimWipRatio, thresholds.wipCriticalRatio), literal)
    /\ AtCutoff("review-bottleneck",
                metrics.reviewTurnaroundMedianHours = thresholds.reviewCriticalHours,
                "critical", FALSE, literal)
    /\ AtCutoff("review-bottleneck",
                metrics.reviewTurnaroundMedianHours = thresholds.reviewWarningHours, "warning",
                RGe(metrics.reviewTurnaroundMedianHours, thresholds.reviewCriticalHours),
                literal)
    /\ AtCutoff("shallow-reviews",
                ThroughputPositive
                    /\ metrics.reviewDepthScore = thresholds.reviewDepthCritical,
                "warning", FALSE, literal)
    /\ AtCutoff("shallow-reviews",
                ThroughputPositive
                    /\ metrics.reviewDepthScore = thresholds.reviewDepthWarning,
                "info", DepthAtMost(thresholds.reviewDepthCritical), literal)
    /\ AtCutoff("large-prs", metrics.prSizeMedian = thresholds.prSizeCritical,
                "warning", FALSE, literal)
    /\ AtCutoff("large-prs", metrics.prSizeMedian = thresholds.prSizeWarning,
                "info", SizeAtLeast(thresholds.prSizeCritical), literal)
    /\ AtCutoff("slow-lead-time", metrics.leadTimeMedianHours = R(168),
                "warning", FALSE, literal)

\* C17 as stated: the comparison of every rule is inclusive: a value equal to
\* a cutoff of a rule makes that rule fire at that cutoff's severity (the
\* build rate at buildSuccessCritical a critical build-failures insight, at
\* buildSuccessWarning a warning one, as for any other rule).
C17_EveryRuleInclusive ==
    DetectCalled =>
        /\ InclusiveAtCutoffs(TRUE)
        /\ AtCutoff("build-failures",
                    metrics.buildSuccessRate = thresholds.buildSuccessCritical,
                    "critical", FALSE, TRUE)
        /\ AtCutoff("build-failures",
                    metrics.buildSuccessRate = thresholds.buildSuccessWarning,
                    "warning", FALSE, TRUE)

\* C17 amended: the comparison of every rule but the build-success rule is
\* inclusive: a value equal to a cutoff makes the rule fire, at that cutoff's
\* severity or, when the value meets the rule's other cutoff too, at the
\* higher of the two.  The build-success rule compares with <: a rate equal
\* to a build cutoff does not fire at that cutoff's severity.
C17_InclusiveButBuild ==
    DetectCalled =>
        /\ InclusiveAtCutoffs(FALSE)
        /\ metrics.buildSuccessRate = thresholds.buildSuccessCritical
              => Insight("build-failures", "critical") \notin Fired
        /\ metrics.buildSuccessRate = thresholds.buildSuccessWarning
              => Insight("build-failures", "warning") \notin Fired

\* C17 witness: at the default thresholds concentration 0.6, cycle time 72 h,
\* WIP ratio 2 and review turnaround 24 h each fire a warning, a build rate of
\* 90 fires nothing, and a warning is returned
C17_Witness ==
    /\ DetectCalled
    /\ thresholds = DefaultThresholds
    /\ metrics.concentrationRatio = Rat(6, 10)
    /\ metrics.cycleTimeMedianHours = R(72)
    /\ ClaimWipRatio = R(2)
    /\ metrics.reviewTurnaroundMedianHours = R(24)
    /\ metrics.buildSuccessRate = R(90)
    /\ {Insight("knowledge-silo", "warning"), Insight("cycle-time-regression", "warning"),
        Insight("wip-overload", "warning"), Insight("review-bottleneck", "warning")}
           \subseteq Fired
    /\ \A f \in Fired : f.type # "build-failures"
    /\ ReturnedAtLeast("warning") /\ insights[1].severity = "warning"

AllButLeadSilent ==
    /\ SiloSilent /\ CycleSilent /\ WipSilent /\ ReviewSilent
    /\ DepthSilent /\ SizeSilent /\ BuildSilent

\* C18: the lead-time rule fires only for a present leadTimeMedianHours; it
\* fires a warning slow-lead-time insight exactly when the value is at or
\* above 168, never a critical or an info one, and 168 is the cutoff under
\* every thresholds record.  With every other rule silent the insight
\* returned is that warning, or none.
C18_LeadTimeRule ==
    DetectCalled =>
        /\ Insight("slow-lead-time", "warning") \in Fired
              <=> (metrics.leadTimeMedianHours # Null
                     /\ RGe(metrics.leadTimeMedianHours, R(168)))
        /\ Insight("slow-lead-time", "critical") \notin Fired
        /\ Insight("slow-lead-time", "info") \notin Fired
        /\ metrics.leadTimeMedianHours = Null => NoneReturned("slow-lead-time")
        /\ AllButLeadSilent =>
              IF metrics.leadTimeMedianHours # Null
                 /\ RGe(metrics.leadTimeMedianHours, R(168))
              THEN Returned("slow-lead-time", "warning")
              ELSE insights = <<>>

\* C18 witness: a lead time of exactly 168 h returned as a warning under a
\* thresholds record that is not the default one
C18_Witness ==
    /\ DetectCalled
    /\ thresholds # DefaultThresholds
    /\ metrics.leadTimeMedianHours = R(168)
    /\ AllButLeadSilent
    /\ Returned("slow-lead-time", "warning")

(***************************************************************************)
(* Repeated and interleaved calls: a caller holds one set of argument      *)
(* objects and calls calculateMetrics, detectInsights and getHealthEmoji   *)
(* on them in any order, then goes through the calls again on the same     *)
(* objects, with a thresholds record of its choice.                        *)
(***************************************************************************)
MaxRounds == 2         \* times the caller goes through its calls

\* two reviews of one PR, the later one first in the list
LateFirstReviews == PRNumber(1) :> <<Review("bob", 8, R(1)), Review("carol", 6, Rat(1, 2))>>

\* two PRs with reviews, ship events in any order and a first-commit date;
\* and the call with nothing to count
CallArgs ==
    {Args(TwoPRs, shape[1], 3,
          [EmptyOptions EXCEPT
              !.shipEvents = [has |-> TRUE, list |-> shape[2]],
              !.firstCommitDates = [has |-> TRUE, map |-> (PRNumber(1) :> At(0))],
              !.periodDays = [has |-> TRUE, value |-> 7]]) :
        shape \in {<<>>, LateFirstReviews} \X SeqsUpTo(LeadShipShapes, MaxShipEvents)}
    \cup {Args(<<>>, <<>>, 0, NoOptions)}

\* metrics records that differ in cycle time and open PRs only
CallMetrics ==
    {m \in MetricsRecords :
        /\ m.throughputCount = R(5) /\ m.collaboratorCount = R(4)
        /\ m.wipCount \in {R(2), R(12)}
        /\ m.prSizeMedian = Null /\ m.buildSuccessRate = Null
        /\ m.leadTimeMedianHours = Null
        /\ m.reviewTurnaroundMedianHours = R(8)
        /\ m.concentrationRatio = Rat(3, 10) /\ m.reviewDepthScore = R(2)}

InitCalls ==
    /\ pc = {}
    /\ args \in CallArgs
    /\ metrics \in CallMetrics
    /\ thresholds \in ThresholdsRecords
    /\ result = NoMetrics
    /\ insights = <<>>
    /\ health = "none"
    /\ supplied = Supplied(args, metrics, thresholds)
    /\ round = 1
    /\ NoRun
    /\ NoPool

AllCalled == pc = {"calculateMetrics", "detectInsights", "getHealthEmoji"}

\* the caller starts over on the objects it holds, passing any thresholds
\* record; what the calls before returned stays with the caller
NextRound ==
    /\ AllCalled
    /\ round < MaxRounds
    /\ \E t \in ThresholdsRecords :
          /\ thresholds' = t
          /\ supplied' = Supplied(supplied.args, supplied.metrics, t)
    /\ round' = round + 1
    /\ pc' = {}
    /\ UNCHANGED <<args, result, metrics, insights, health>>
    /\ UNCHANGED runVars
    /\ UNCHANGED poolVars

NextCalls ==
    \/ CallCalculateMetrics
    \/ CallDetectInsights
    \/ CallGetHealthEmoji
    \/ NextRound

SpecCalls == InitCalls /\ [][NextCalls]_vars

Envs ==
    [githubActions : BOOLEAN, repository : BOOLEAN,
     postAs : {"summary", "issue-comment"}, issueNumber : {0, 7},
     auroraApiKey : BOOLEAN, auroraTeamId : BOOLEAN]

\* what the repository holds: merged PRs or none, a workflow-run summary or
\* none, a deployment or none, a release or none
Worlds ==
    [mergedPRs : {<<>>, TwoPRs},
     workflowRuns : {[NoOptions.workflowRuns EXCEPT !.kind = "null"], WorkflowRuns(3, 2)},
     deployments : {<<>>, <<ShipEvent(12, "deployment")>>},
     releases : {<<>>, <<ShipEvent(20, "release")>>}]

\* reviewsByPR and sizesByPR of getReviewsAndSizes: an entry for every PR
RunReviews(prs) ==
    [n \in {prs[i].number : i \in DOMAIN prs} |-> <<Review("carol", 6, R(1))>>]
RunSizes(prs) ==
    [n \in {prs[i].number : i \in DOMAIN prs} |-> [additions |-> 60, deletions |-> 40]]
RunFirstCommits(prs) ==
    [n \in {prs[i].number : i \in DOMAIN prs} |-> At(0)]

SprintLengthDays == 14

\* the locals of run() that end up as the arguments of calculateMetrics
RunLocals ==
    Args(<<>>, <<>>, 0, [EmptyOptions EXCEPT !.periodDays = [has |-> TRUE,
                                                           value |-> SprintLengthDays]])

EmptyCardBody == "No pull requests merged during this period."

\* renderEmptyCard and renderHealthCard
renderEmptyCard == [kind |-> "empty", body |-> EmptyCardBody, status |-> "none"]
renderHealthCard(m, t) == [kind |-> "health", body |-> "metrics", status |-> getHealthEmoji(m, t)]

InitRun ==
    /\ runPc = "start"
    /\ env \in Envs
    /\ world \in Worlds
    /\ fetched = <<>>
    /\ returned = {}
    /\ outputs = {}
    /\ card = NoCard
    /\ posted = {}
    /\ pushed = <<>>
    /\ warnings = 0
    /\ NoPool
    /\ pc = {}
    /\ args = RunLocals
    /\ result = NoMetrics
    /\ metrics = NoMetrics
    /\ thresholds = DefaultThresholds
    /\ insights = <<>>
    /\ health = "none"
    /\ supplied = Supplied(NoArgs, NoMetrics, DefaultThresholds)
    /\ round = 1

\* what a step of run() leaves alone besides the variables it names
RunFrame ==
    /\ UNCHANGED <<pc, metrics, thresholds, insights, supplied, round, env, world>>
    /\ UNCHANGED poolVars

\* getConfig throws on a GITHUB_REPOSITORY it cannot parse; otherwise run()
\* calls getMergedPRs
GetConfig ==
    /\ runPc = "start"
    /\ IF env.repository
       THEN /\ fetched' = Append(fetched, "getMergedPRs")
            /\ runPc' = "awaitMergedPRs"
       ELSE /\ runPc' = "failed"
            /\ UNCHANGED fetched
    /\ UNCHANGED <<args, result, health, returned, outputs, card, posted, pushed, warnings>>
    /\ RunFrame

\* getMergedPRs resolves with the merged PRs, or rejects when the search and
\* the list fallback both fail
MergedPRsReturn ==
    /\ runPc = "awaitMergedPRs"
    /\ \E ok \in BOOLEAN :
          IF ok
          THEN /\ args' = [args EXCEPT !.pullRequests = world.mergedPRs]
               /\ returned' = returned \cup {"getMergedPRs"}
               /\ runPc' = "gotMergedPRs"
          ELSE /\ runPc' = "failed"
               /\ UNCHANGED <<args, returned>>
    /\ UNCHANGED <<result, health, fetched, outputs, card, posted, pushed, warnings>>
    /\ RunFrame

\* the ifs that never take the early return
EmptySprint_Never(pullRequests) == FALSE

\* pullRequests.length === 0
EmptySprint(pullRequests) == Len(pullRequests) = 0

\* outputResults: the health-card output in GitHub Actions mode, and the
\* metric outputs when there are metrics
OutputNames(m) ==
    IF m = NoMetrics THEN {"health-card"}
    ELSE {"health-card", "cycle-time-hours", "throughput", "review-turnaround-hours"}
            \cup (IF m.prSizeMedian # Null THEN {"pr-size-median"} ELSE {})
            \cup (IF m.buildSuccessRate # Null THEN {"build-success-rate"} ELSE {})
            \cup (IF m.shipFrequency # Null THEN {"ship-frequency"} ELSE {})
            \cup (IF m.leadTimeMedianHours # Null THEN {"lead-time-hours"} ELSE {})

outputResults(m) == IF env.githubActions THEN OutputNames(m) ELSE {}

\* the empty sprint: the empty card is rendered and put out, and run() returns
OutputEmptyCard ==
    /\ runPc = "gotMergedPRs"
    /\ EmptySprint(args.pullRequests)
    /\ card' = renderEmptyCard
    /\ outputs' = outputResults(NoMetrics)
    /\ runPc' = "done"
    /\ UNCHANGED <<args, result, health, fetched, returned, posted, pushed, warnings>>
    /\ RunFrame

\* the four fetches of Promise.all, called in this order before any resolves
ParallelFetches == <<"getReviewsAndSizes", "getOpenPRs", "getWorkflowRuns", "getDeployments">>

FetchAll ==
    /\ runPc = "gotMergedPRs"
    /\ ~EmptySprint(args.pullRequests)
    /\ fetched' = fetched \o ParallelFetches
    /\ runPc' = "awaitAll"
    /\ UNCHANGED <<args, result, health, returned, outputs, card, posted, pushed, warnings>>
    /\ RunFrame

\* what a resolved fetch adds to the locals of run()
Fetched(f, a) ==
    CASE f = "getReviewsAndSizes" ->
            [a EXCEPT !.reviewsByPR = RunReviews(a.pullRequests),
                      !.options.prSizes = [has |-> TRUE, map |-> RunSizes(a.pullRequests)]]
      [] f = "getOpenPRs" -> [a EXCEPT !.openPRCount = R(3)]
      [] f = "getWorkflowRuns" -> [a EXCEPT !.options.workflowRuns = world.workflowRuns]
      [] f = "getDeployments" ->
            [a EXCEPT !.options.shipEvents = [has |-> TRUE, list |-> world.deployments]]

\* one of the four resolves, in any order; getOpenPRs alone can reject (the
\* others catch their errors), and Promise.all then rejects
FetchReturn ==
    /\ runPc = "awaitAll"
    /\ \E f \in Range(ParallelFetches) \ returned :
          \E ok \in BOOLEAN :
            /\ ok \/ f = "getOpenPRs"
            /\ IF ok
               THEN /\ args' = Fetched(f, args)
                    /\ returned' = returned \cup {f}
                    /\ runPc' = IF Range(ParallelFetches) \subseteq returned'
                                THEN "gotAll" ELSE "awaitAll"
               ELSE /\ runPc' = "failed"
                    /\ UNCHANGED <<args, returned>>
    /\ UNCHANGED <<result, health, fetched, outputs, card, posted, pushed, warnings>>
    /\ RunFrame

\* run() that fetches the releases whatever the deployments are
ChooseShipEvents_AlwaysReleases ==
    /\ runPc = "gotAll"
    /\ fetched' = Append(fetched, "getReleases")
    /\ runPc' = "awaitReleases"
    /\ UNCHANGED <<args, result, health, returned, outputs, card, posted, pushed, warnings>>
    /\ RunFrame

\* ship events: the deployments, or the releases when there is no deployment
ChooseShipEvents ==
    /\ runPc = "gotAll"
    /\ IF Len(args.options.shipEvents.list) > 0
       THEN /\ runPc' = "haveShipEvents"
            /\ UNCHANGED fetched
       ELSE /\ fetched' = Append(fetched, "getReleases")
            /\ runPc' = "awaitReleases"
    /\ UNCHANGED <<args, result, health, returned, outputs, card, posted, pushed, warnings>>
    /\ RunFrame

ReleasesReturn ==
    /\ runPc = "awaitReleases"
    /\ args' = [args EXCEPT !.options.shipEvents.list = world.releases]
    /\ returned' = returned \cup {"getReleases"}
    /\ runPc' = "haveShipEvents"
    /\ UNCHANGED <<result, health, fetched, outputs, card, posted, pushed, warnings>>
    /\ RunFrame

\* first-commit dates are fetched only when there are ship events
ChooseFirstCommits ==
    /\ runPc = "haveShipEvents"
    /\ IF Len(args.options.shipEvents.list) > 0
       THEN /\ fetched' = Append(fetched, "getFirstCommitDates")
            /\ runPc' = "awaitFirstCommits"
            /\ UNCHANGED args
       ELSE /\ args' = [args EXCEPT !.options.firstCommitDates = [has |-> TRUE, map |-> <<>>]]
            /\ runPc' = "calculate"
            /\ UNCHANGED fetched
    /\ UNCHANGED <<result, health, returned, outputs, card, posted, pushed, warnings>>
    /\ RunFrame

FirstCommitsReturn ==
    /\ runPc = "awaitFirstCommits"
    /\ args' = [args EXCEPT !.options.firstCommitDates =
                                [has |-> TRUE, map |-> RunFirstCommits(args.pullRequests)]]
    /\ returned' = returned \cup {"getFirstCommitDates"}
    /\ runPc' = "calculate"
    /\ UNCHANGED <<result, health, fetched, outputs, card, posted, pushed, warnings>>
    /\ RunFrame

\* calculateMetrics, renderHealthCard, outputResults
CalculateAndOutput ==
    /\ runPc = "calculate"
    /\ LET m == calculateMetrics(args.pullRequests, args.reviewsByPR,
                                 args.openPRCount, args.options)
           healthCard == renderHealthCard(m, thresholds)
       IN  /\ result' = m
           /\ card' = healthCard
           /\ health' = healthCard.status
           /\ outputs' = outputResults(m)
    /\ args' = ArgsAfterCall(args)
    /\ runPc' = "post"
    /\ UNCHANGED <<fetched, returned, posted, pushed, warnings>>
    /\ RunFrame

\* postHealthCard that writes the job summary whatever post-as is, and then
\* posts the comment as well
PostHealthCard_Both ==
    /\ runPc = "post"
    /\ posted' = IF env.githubActions THEN posted \cup {"summary"} ELSE posted
    /\ IF env.postAs = "issue-comment" /\ env.issueNumber # 0
       THEN /\ fetched' = Append(fetched, "postIssueComment")
            /\ runPc' = "awaitComment"
       ELSE /\ runPc' = "posted"
            /\ UNCHANGED fetched
    /\ UNCHANGED <<args, result, health, returned, outputs, card, pushed, warnings>>
    /\ RunFrame

\* postHealthCard: the job summary in GitHub Actions mode, or a comment on the
\* issue when post-as is issue-comment and an issue number is set
PostHealthCard ==
    /\ runPc = "post"
    /\ IF env.postAs = "summary"
       THEN /\ posted' = IF env.githubActions THEN posted \cup {"summary"} ELSE posted
            /\ runPc' = "posted"
            /\ UNCHANGED fetched
       ELSE IF env.postAs = "issue-comment" /\ env.issueNumber # 0
       THEN /\ fetched' = Append(fetched, "postIssueComment")
            /\ runPc' = "awaitComment"
            /\ UNCHANGED posted
       ELSE /\ runPc' = "posted"
            /\ UNCHANGED <<fetched, posted>>
    /\ UNCHANGED <<args, result, health, returned, outputs, card, pushed, warnings>>
    /\ RunFrame

\* createComment resolves, or rejects and run() with it
CommentReturn ==
    /\ runPc = "awaitComment"
    /\ \E ok \in BOOLEAN :
          IF ok
          THEN /\ posted' = posted \cup {"issue-comment"}
               /\ returned' = returned \cup {"postIssueComment"}
               /\ runPc' = "posted"
          ELSE /\ runPc' = "failed"
               /\ UNCHANGED <<posted, returned>>
    /\ UNCHANGED <<args, result, health, fetched, outputs, card, pushed, warnings>>
    /\ RunFrame

\* pushToAurora called whenever one of the two keys is configured
PushToAurora_EitherKey ==
    /\ runPc = "posted"
    /\ IF env.auroraApiKey \/ env.auroraTeamId
       THEN /\ pushed' = Append(pushed, "sent")
            /\ runPc' = "awaitPush"
       ELSE /\ runPc' = "done"
            /\ UNCHANGED pushed
    /\ UNCHANGED <<args, result, health, fetched, returned, outputs, card, posted, warnings>>
    /\ RunFrame

\* pushToAurora is called only with both keys configured
PushToAurora ==
    /\ runPc = "posted"
    /\ IF env.auroraApiKey /\ env.auroraTeamId
       THEN /\ pushed' = Append(pushed, "sent")
            /\ runPc' = "awaitPush"
       ELSE /\ runPc' = "done"
            /\ UNCHANGED pushed
    /\ UNCHANGED <<args, result, health, fetched, returned, outputs, card, posted, warnings>>
    /\ RunFrame

\* pushToAurora without its try/catch: a fetch that throws rejects run()
PushReturn_Uncaught ==
    /\ runPc = "awaitPush"
    /\ \E outcome \in {"ok", "rejected", "error"} :
          /\ pushed' = [pushed EXCEPT ![Len(pushed)] = outcome]
          /\ warnings' = IF outcome = "rejected" THEN warnings + 1 ELSE warnings
          /\ runPc' = IF outcome = "error" THEN "failed" ELSE "done"
    /\ UNCHANGED <<args, result, health, fetched, returned, outputs, card, posted>>
    /\ RunFrame

\* the POST answers ok, answers with an error status, or fails (network
\* error, or the abort after 15 s); pushToAurora logs a warning for an error
\* status and for a failure, and returns
PushReturn ==
    /\ runPc = "awaitPush"
    /\ \E outcome \in {"ok", "rejected", "error"} :
          /\ pushed' = [pushed EXCEPT ![Len(pushed)] = outcome]
          /\ warnings' = IF outcome = "ok" THEN warnings ELSE warnings + 1
    /\ runPc' = "done"
    /\ UNCHANGED <<args, result, health, fetched, returned, outputs, card, posted>>
    /\ RunFrame

\* the steps run() takes on its own, between two awaits
RunSteps ==
    \/ GetConfig
    \/ OutputEmptyCard
    \/ FetchAll
    \/ ChooseShipEvents
    \/ ChooseFirstCommits
    \/ CalculateAndOutput
    \/ PostHealthCard
    \/ PushToAurora

\* the answers of GitHub and Aurora
Answers ==
    \/ MergedPRsReturn
    \/ FetchReturn
    \/ ReleasesReturn
    \/ FirstCommitsReturn
    \/ CommentReturn
    \/ PushReturn

NextRun == RunSteps \/ Answers

\* the step of run() from its calculateMetrics call to postHealthCard, told by
\* the position alone: within NextRun it is the CalculateAndOutput step, and
\* it can be taken exactly when CalculateAndOutput can
Calculates == runPc = "calculate" /\ runPc' = "post"

\* a continuation that can run does run (the code between two awaits runs to
\* its end); nothing is assumed about the answers
SpecRun ==
    /\ InitRun
    /\ [][NextRun]_vars
    /\ WF_vars(GetConfig)
    /\ WF_vars(OutputEmptyCard)
    /\ WF_vars(FetchAll)
    /\ WF_vars(ChooseShipEvents)
    /\ WF_vars(ChooseFirstCommits)
    /\ WF_runPc(Calculates)
    /\ WF_vars(PostHealthCard)
    /\ WF_vars(PushToAurora)

\* the merged-PR fetch has returned, and returned no PRs
ReturnedNoPRs == "getMergedPRs" \in returned /\ Len(args.pullRequests) = 0

\* nothing of the pipeline past the merged-PR fetch has happened
NoFurtherStep ==
    /\ runPc \in {"gotMergedPRs", "done"}
    /\ fetched = <<"getMergedPRs">>
    /\ returned = {"getMergedPRs"}
    /\ outputs \subseteq {"health-card"}
    /\ "health-card" \in outputs => (env.githubActions /\ card.body = EmptyCardBody)
    /\ posted = {}
    /\ pushed = <<>>
    /\ result = NoMetrics

RunComplete ==
    /\ runPc = "done"
    /\ "health-card" \in outputs <=> env.githubActions

\* C20: when the merged-PR fetch returns no PRs, run() completes without
\* error and takes no further step of the pipeline: no review, open-PR,
\* workflow, deployment, release or first-commit fetch, no output but
\* health-card (set in GitHub Actions mode only, with the text 'No pull
\* requests merged'), nothing posted and nothing pushed to Aurora, whatever
\* keys are configured.
C20_EmptySprintStops ==
    /\ [](ReturnedNoPRs => NoFurtherStep)
    /\ ReturnedNoPRs ~> (RunComplete /\ NoFurtherStep)

\* C20 witness: run() is done on an empty sprint in GitHub Actions mode, with
\* both Aurora keys and a comment on an issue configured: one fetch, the
\* health-card output
C20_Witness ==
    /\ runPc = "done"
    /\ ReturnedNoPRs
    /\ env.githubActions
    /\ env.auroraApiKey /\ env.auroraTeamId
    /\ env.postAs = "issue-comment" /\ env.issueNumber # 0
    /\ fetched = <<"getMergedPRs">>
    /\ outputs = {"health-card"}
    /\ card = renderEmptyCard
    /\ pushed = <<>>

\* run() has ended: it returned, or it rejected
RunEnded == runPc \in {"done", "failed"}

\* the run has merged PRs
HasMergedPRs == "getMergedPRs" \in returned /\ Len(args.pullRequests) > 0

AuroraConfigured == env.auroraApiKey /\ env.auroraTeamId

\* the POSTs to Aurora the run ought to have made at its end
PostsDue == IF AuroraConfigured THEN 1 ELSE 0

\* where postHealthCard leaves the card once it has run
PostingDone ==
    posted = IF env.postAs = "summary"
             THEN (IF env.githubActions THEN {"summary"} ELSE {})
             ELSE (IF env.issueNumber # 0 THEN {"issue-comment"} ELSE {})

\* a POST is made only with the metrics calculated, the card put out and the
\* posting step over
PushComesLast ==
    pushed # <<>> =>
        /\ runPc \in {"awaitPush", "done"}
        /\ HasMergedPRs
        /\ AuroraConfigured
        /\ result # NoMetrics
        /\ result = calculateMetrics(args.pullRequests, args.reviewsByPR,
                                     args.openPRCount, args.options)
        /\ card = renderHealthCard(result, thresholds)
        /\ outputs = outputResults(result)
        /\ PostingDone

C21_WitnessNoKey ==
    /\ runPc = "done"
    /\ HasMergedPRs
    /\ env.auroraApiKey /\ ~env.auroraTeamId
    /\ pushed = <<>>

\* the POST to Aurora has failed: an error status, or a throw
PushFailed == pushed # <<>> /\ pushed[Len(pushed)] \in {"rejected", "error"}

\* what the run had put out and posted when it called pushToAurora
BeforePush == <<result, card, outputs, posted, health>>

\* from the call of pushToAurora on, what was put out and posted stays
PushLeavesOutputs == runPc \in {"awaitPush", "done"} => BeforePush' = BeforePush

\* run() takes no step once it has returned
DoneIsFinal == runPc = "done" => vars' = vars

\* C22: a failed Aurora push never fails the run: whether the POST answers
\* with a non-OK status or throws, run() returns (it does not reject), one
\* warning is logged, the POST is not tried again, and the outputs and the
\* posting done before the push stay as they were.
C22_PushFailureIsLogged ==
    /\ [](PushFailed =>
            /\ runPc = "done"
            /\ warnings = 1
            /\ pushed \in {<<"rejected">>, <<"error">>}
            /\ card = renderHealthCard(result, thresholds)
            /\ outputs = outputResults(result)
            /\ PostingDone)
    /\ [][PushLeavesOutputs]_vars
    /\ [][DoneIsFinal]_vars

\* C22 witness: the POST threw in a run that had set its outputs and written
\* the job summary; the run is done, one warning is logged
C22_Witness ==
    /\ pushed = <<"error">>
    /\ runPc = "done"
    /\ warnings = 1
    /\ posted = {"summary"}
    /\ "cycle-time-hours" \in outputs

\* the POST was answered with an error status
C22_WitnessRejected == pushed = <<"rejected">> /\ runPc = "done" /\ warnings = 1

\* how often run() has called f
Calls(f) == Cardinality({i \in DOMAIN fetched : fetched[i] = f})

\* the comments the configuration asks for
CommentsDue == IF env.postAs = "issue-comment" /\ env.issueNumber # 0 THEN 1 ELSE 0

\* run() has come to postHealthCard and through its call of postIssueComment
PostingReached ==
    \/ runPc \in {"awaitComment", "posted", "awaitPush"}
    \/ runPc = "done" /\ HasMergedPRs

\* the card never goes to two destinations, the job summary is written only
\* with post-as = summary in GitHub Actions mode, and a comment is posted only
\* with post-as = issue-comment
OneDestination ==
    /\ Cardinality(posted) <= 1
    /\ "summary" \in posted => (env.postAs = "summary" /\ env.githubActions)
    /\ env.postAs = "summary" => Calls("postIssueComment") = 0
    /\ "issue-comment" \in posted =>
          (env.postAs = "issue-comment" /\ Calls("postIssueComment") = 1)

ChosenShipEvents == args.options.shipEvents.list

\* run() is at the call of calculateMetrics or past it
AtOrPastCalculate == runPc \in {"calculate", "post", "awaitComment", "posted", "awaitPush", "done"} /\ HasMergedPRs

\* the fetches calculateMetrics' arguments come from
DataFetches == Range(fetched) \ {"postIssueComment"}

\* releases are fetched only after the deployments fetch returned no event
ReleasesOnlyWithoutDeployments ==
    Calls("getReleases") > 0 =>
        /\ "getDeployments" \in returned
        /\ world.deployments = <<>>
        /\ Calls("getReleases") = 1

\* first-commit dates are fetched only for a non-empty choice of ship events
FirstCommitsOnlyWithShipEvents ==
    Calls("getFirstCommitDates") > 0 =>
        /\ Len(ChosenShipEvents) > 0
        /\ Calls("getFirstCommitDates") = 1

\* what calculateMetrics is called with
CalculateArguments ==
    AtOrPastCalculate =>
        /\ DataFetches \subseteq returned
        /\ {"getMergedPRs"} \cup Range(ParallelFetches) \subseteq returned
        /\ "getReleases" \in returned <=> world.deployments = <<>>
        /\ ChosenShipEvents = IF world.deployments # <<>> THEN world.deployments
                              ELSE world.releases
        /\ \A i, j \in DOMAIN ChosenShipEvents :
              ChosenShipEvents[i].source = ChosenShipEvents[j].source
        /\ "getFirstCommitDates" \in returned <=> Len(ChosenShipEvents) > 0
        /\ args.options.firstCommitDates.has
        /\ args.options.firstCommitDates.map =
              IF Len(ChosenShipEvents) > 0 THEN RunFirstCommits(args.pullRequests) ELSE <<>>
        /\ args.reviewsByPR = RunReviews(args.pullRequests)
        /\ args.options.workflowRuns = world.workflowRuns

\* C26: in run() with a merged PR, releases are fetched only if the
\* deployments fetch returned no event, so the ship events passed to
\* calculateMetrics are all deployments or all releases; first-commit dates
\* are fetched only if the chosen ship events are not empty, and an empty map
\* is passed otherwise; calculateMetrics is called only after every fetch it
\* depends on has resolved, and there is no result before that.
C26_FetchOrder ==
    /\ ReleasesOnlyWithoutDeployments
    /\ FirstCommitsOnlyWithShipEvents
    /\ CalculateArguments
    /\ result # NoMetrics =>
          /\ DataFetches \subseteq returned
          /\ {"getMergedPRs"} \cup Range(ParallelFetches) \subseteq returned

\* C26 witness: no deployment but a release: the releases and then the first
\* commit dates were fetched, and the metrics carry the release as ship source
C26_Witness ==
    /\ runPc = "done"
    /\ world.deployments = <<>> /\ world.releases # <<>>
    /\ fetched = <<"getMergedPRs">> \o ParallelFetches \o <<"getReleases", "getFirstCommitDates">>
    /\ result.shipSource = "release"
    /\ result.leadTimeMedianHours # Null

\* neither deployment nor release: no first-commit fetch, an empty map passed
C26_WitnessNoShip ==
    /\ runPc = "done"
    /\ HasMergedPRs
    /\ ChosenShipEvents = <<>>
    /\ Calls("getReleases") = 1
    /\ Calls("getFirstCommitDates") = 0
    /\ result.shipSource = "null"

(***************************************************************************)
(* runWithConcurrency of github-client.ts. The items are 1 .. Len(calls);  *)
(* the promise pushed for item k is fn(k).then(push), named k here. A call *)
(* of fn settles at any moment after its start, in any order. Every await  *)
(* of runWithConcurrency is a position of its own.                         *)
(***************************************************************************)
MaxItems == 4
MaxLimit == 2

Items == DOMAIN calls
Started == {k \in Items : calls[k] # "unstarted"}
Settled == {k \in Items : calls[k] \in {"fulfilled", "rejected"}}

\* the invocations of fn that have started and not settled
InFlight == {k \in Items : calls[k] = "pending"}

\* The promise jobs of  Promise.race([p.then(() => true), Promise.resolve(false)]),
\* in the order they are queued. With p settled, p.then queues the job that
\* runs () => true ("then"); the race then subscribes to the promise of
\* p.then, still pending, and to the resolved promise, whose reaction
\* ("false") is queued at once. Running "then" settles the promise of p.then
\* and queues its reaction on the race ("true").
SettledProbeJobs(state) ==
    IF state \in {"fulfilled", "rejected"} THEN <<"then", "false">> ELSE <<"false">>

\* the jobs run first in, first out; the first reaction to run settles the race
RECURSIVE RunJobs(_)
RunJobs(jobs) ==
    CASE Head(jobs) = "then" -> RunJobs(Append(Tail(jobs), "true"))
      [] Head(jobs) = "true" -> TRUE
      [] Head(jobs) = "false" -> FALSE

\* isSettled of the removal loop, for a promise in the given state (a
\* rejected p makes p.then reject, but a job later than "false" as well)
IsSettled(state) == RunJobs(SettledProbeJobs(state))

\* s without its element at index n: executing.splice(i, 1)
Splice(s, n) == SubSeq(s, 1, n - 1) \o SubSeq(s, n + 1, Len(s))

\* what Promise.race(executing) is settled by at the moment it is called: the
\* first promise of the array that is settled already, if there is one
RaceAtCall(ex, c) ==
    IF \E n \in DOMAIN ex : c[ex[n]] \in {"fulfilled", "rejected"}
    THEN LET first == CHOOSE n \in DOMAIN ex :
                        /\ c[ex[n]] \in {"fulfilled", "rejected"}
                        /\ \A q \in DOMAIN ex : q < n => c[ex[q]] = "pending"
         IN  IF c[ex[first]] = "fulfilled" THEN "raceFulfilled" ELSE "raceRejected"
    ELSE "race"

InitPool ==
    /\ poolPc = "loop"
    /\ limit \in 1 .. MaxLimit
    /\ \E n \in 0 .. MaxItems : calls = [k \in 1 .. n |-> "unstarted"]
    /\ executing = <<>>
    /\ results = <<>>
    /\ sweepIndex = 0
    /\ NoRun
    /\ pc = {}
    /\ args = NoArgs
    /\ result = NoMetrics
    /\ metrics = NoMetrics
    /\ thresholds = DefaultThresholds
    /\ insights = <<>>
    /\ health = "none"
    /\ supplied = Supplied(NoArgs, NoMetrics, DefaultThresholds)
    /\ round = 1

PoolFrame ==
    /\ UNCHANGED <<pc, args, result, metrics, thresholds, insights, health, supplied, round>>
    /\ UNCHANGED runVars

\* the body of the for loop up to its if: fn(item) is called, its promise is
\* pushed, and with executing.length >= limit Promise.race(executing) is awaited
StartCall ==
    /\ poolPc = "loop"
    /\ Started # Items
    /\ LET item == Cardinality(Started) + 1
       IN  /\ calls' = [calls EXCEPT ![item] = "pending"]
           /\ executing' = Append(executing, item)
           /\ poolPc' = IF Len(executing') >= limit
                        THEN RaceAtCall(executing', calls')
                        ELSE "loop"
    /\ UNCHANGED <<limit, results, sweepIndex>>
    /\ PoolFrame

\* a call of fn settles; a fulfilled one has its result pushed; the first
\* promise to settle settles a pending Promise.race(executing)
Settle ==
    /\ \E k \in InFlight, outcome \in {"fulfilled", "rejected"} :
          /\ calls' = [calls EXCEPT ![k] = outcome]
          /\ results' = IF outcome = "fulfilled" THEN Append(results, k) ELSE results
          /\ poolPc' = IF poolPc = "race"
                       THEN (IF outcome = "fulfilled" THEN "raceFulfilled" ELSE "raceRejected")
                       ELSE poolPc
    /\ UNCHANGED <<limit, executing, sweepIndex>>
    /\ PoolFrame

\* await Promise.race(executing) returns, or throws
RaceReturn ==
    /\ poolPc \in {"raceFulfilled", "raceRejected"}
    /\ IF poolPc = "raceFulfilled"
       THEN /\ poolPc' = "sweep"
            /\ sweepIndex' = Len(executing)
       ELSE /\ poolPc' = "rejected"
            /\ UNCHANGED sweepIndex
    /\ UNCHANGED <<limit, calls, executing, results>>
    /\ PoolFrame

\* one round of the removal loop: the promise at index i is spliced out when
\* isSettled is true; after index 0 the for loop goes on
Sweep ==
    /\ poolPc = "sweep"
    /\ executing' = IF IsSettled(calls[executing[sweepIndex]])
                    THEN Splice(executing, sweepIndex)
                    ELSE executing
    /\ sweepIndex' = sweepIndex - 1
    /\ poolPc' = IF sweepIndex' = 0 THEN "loop" ELSE "sweep"
    /\ UNCHANGED <<limit, calls, results>>
    /\ PoolFrame

\* the for loop is over: Promise.all(executing) is awaited
LoopEnd ==
    /\ poolPc = "loop"
    /\ Started = Items
    /\ poolPc' = "all"
    /\ UNCHANGED <<limit, calls, executing, results, sweepIndex>>
    /\ PoolFrame

\* Promise.all(executing) rejects with a rejected promise in the array and
\* fulfils once all of them are fulfilled; runWithConcurrency returns results
AllReturn ==
    /\ poolPc = "all"
    /\ \/ /\ \E n \in DOMAIN executing : calls[executing[n]] = "rejected"
          /\ poolPc' = "rejected"
       \/ /\ \A n \in DOMAIN executing : calls[executing[n]] = "fulfilled"
          /\ poolPc' = "resolved"
    /\ UNCHANGED <<limit, calls, executing, results, sweepIndex>>
    /\ PoolFrame

NextPool ==
    \/ StartCall
    \/ Settle
    \/ RaceReturn
    \/ Sweep
    \/ LoopEnd
    \/ AllReturn

\* runWithConcurrency's own steps are taken when they can be; nothing is
\* assumed about when a call of fn settles
SpecPool ==
    /\ InitPool
    /\ [][NextPool]_vars
    /\ WF_vars(StartCall)
    /\ WF_vars(RaceReturn)
    /\ WF_vars(Sweep)
    /\ WF_vars(LoopEnd)
    /\ WF_vars(AllReturn)

\* C24: runWithConcurrency(items, fn, limit) keeps the number of calls of fn
\* that have started and not settled at or below limit at every moment,
\* whatever the number of items and the order in which the calls settle, and
\* it resolves only after every call has settled, with one result per item.
C24_ConcurrencyLimit ==
    /\ Cardinality(InFlight) <= limit
    /\ poolPc = "resolved" =>
          /\ Settled = Items
          /\ Len(results) = Cardinality(Items)
          /\ Range(results) = Items

\* C24 witness of the breach: limit 1, three items, the first call has
\* settled and the second and third are both in flight
C24_Breach ==
    /\ limit = 1
    /\ Cardinality(Items) = 3
    /\ calls = <<"fulfilled", "pending", "pending">>

\* the part of C24 that the code keeps: it resolves only with every call
\* settled, and then with exactly one result per item
C24_ResolvesComplete ==
    poolPc = "resolved" =>
        /\ Settled = Items
        /\ Len(results) = Cardinality(Items)
        /\ Range(results) = Items

\* the fixed order in which detectInsights evaluates its rules
RuleOrder ==
    <<"knowledge-silo", "cycle-time-regression", "wip-overload", "review-bottleneck",
      "shallow-reviews", "large-prs", "build-failures", "slow-lead-time">>

RulePosition(type) == CHOOSE n \in DOMAIN RuleOrder : RuleOrder[n] = type

\* the insights that fired at the highest severity that fired
MostSevere ==
    {x \in Fired : \A y \in Fired : severityOrder(x.severity) <= severityOrder(y.severity)}

\* C25: when several rules fire at the same highest severity, the returned
\* insight is that of the rule that comes first in the evaluation order
\* concentration, cycle time, WIP, review turnaround, review depth, PR size,
\* build success, lead time; concentration and cycle time both critical
\* return knowledge-silo.
C25_FirstRuleWinsTies ==
    ("detectInsights" \in pc /\ Fired # {}) =>
        /\ Len(insights) = 1
        /\ insights[1] \in MostSevere
        /\ \A y \in MostSevere : RulePosition(insights[1].type) <= RulePosition(y.type)

\* C25 witness: concentration and cycle time are both critical, with further
\* rules firing, and knowledge-silo is returned
C25_Witness ==
    /\ "detectInsights" \in pc
    /\ Insight("knowledge-silo", "critical") \in Fired
    /\ Insight("cycle-time-regression", "critical") \in Fired
    /\ Cardinality(MostSevere) >= 3
    /\ insights = <<Insight("knowledge-silo", "critical")>>

\* a tie at warning between rules late in the order, none critical: the
\* shallow-reviews warning comes before large-prs and slow-lead-time
C25_WitnessWarningTie ==
    /\ "detectInsights" \in pc
    /\ {Insight("shallow-reviews", "warning"), Insight("large-prs", "warning")} \subseteq MostSevere
    /\ insights = <<Insight("shallow-reviews", "warning")>>

\* both functions have been called on the same metrics and thresholds
BothCalled == {"detectInsights", "getHealthEmoji"} \subseteq pc

\* C27: the health status never outranks the returned insight: when
\* getHealthEmoji returns critical, detectInsights returns exactly one
\* insight, of severity critical; when getHealthEmoji returns warning,
\* detectInsights returns exactly one insight, of severity warning or
\* critical.
C27_HealthNeverOutranksInsight ==
    BothCalled =>
        /\ health = "critical" =>
              (Len(insights) = 1 /\ insights[1].severity = "critical")
        /\ health = "warning" =>
              (Len(insights) = 1 /\ insights[1].severity \in {"warning", "critical"})

\* C27 witness: the status is warning for the concentration alone, under
\* cutoffs that are not the defaults, and the one insight is the
\* knowledge-silo warning
C27_Witness ==
    /\ BothCalled
    /\ health = "warning"
    /\ thresholds # DefaultThresholds
    /\ ~RGe(metrics.cycleTimeMedianHours, thresholds.cycleTimeWarningHours)
    /\ ~RGe(WipRatio(metrics), thresholds.wipWarningRatio)
    /\ insights = <<Insight("knowledge-silo", "warning")>>

\* the status is critical for the build rate alone, and so is the insight
C27_WitnessCritical ==
    /\ BothCalled
    /\ health = "critical"
    /\ ~RGe(metrics.cycleTimeMedianHours, thresholds.cycleTimeCriticalHours)
    /\ ~RGe(WipRatio(metrics), thresholds.wipCriticalRatio)
    /\ insights = <<Insight("build-failures", "critical")>>

ShipFieldsNull ==
    {result.shipFrequency = Null, result.shipCount = Null, result.shipSource = "null"}

\* the optional fields of the result are null or not together
OptionalFieldsTogether ==
    /\ result.prSizeMedian = Null <=> result.prSizeCategory = "null"
    /\ result.buildSuccessRate = Null <=> result.buildTotalRuns = Null
    /\ Cardinality(ShipFieldsNull) = 1
    /\ result.leadTimeMedianHours # Null => ShipFieldsNull = {FALSE}

\* what was measured is reported, a zero as 0: a size median when sizes are
\* supplied, a build rate when runs are counted, a lead time when a PR yields
\* one
MeasuredIsReported ==
    /\ SizesGiven => result.prSizeMedian # Null
    /\ (SizesGiven /\ \A n \in DOMAIN args.options.prSizes.map :
                        args.options.prSizes.map[n] = [additions |-> 0, deletions |-> 0])
          => result.prSizeMedian = R(0)
    /\ RunsCounted => result.buildSuccessRate # Null
    /\ (RunsCounted /\ WorkflowSummary.successCount = 0) => result.buildSuccessRate = R(0)
    /\ (LeadDataGiven /\ Shipped # {}) => result.leadTimeMedianHours # Null
    /\ (LeadDataGiven /\ Shipped # {} /\ \A i \in Shipped : LeadHours[i] = R(0))
          => result.leadTimeMedianHours = R(0)

\* C28: in every record calculateMetrics returns, prSizeMedian is null iff
\* prSizeCategory is null, buildSuccessRate is null iff buildTotalRuns is
\* null, shipFrequency, shipCount and shipSource are all null or all not
\* null, and leadTimeMedianHours is not null only if the ship fields are not
\* null; a measured zero (PR size 0, build rate 0, lead time 0) is reported
\* as 0 and not as null.
C28_OptionalFieldsTogether ==
    Calculated => (OptionalFieldsTogether /\ MeasuredIsReported)

\* C28 witness: a size median, a build rate and a lead time of 0, all measured
C28_Witness ==
    /\ Calculated
    /\ result.prSizeMedian = R(0) /\ result.prSizeCategory = "small"
    /\ result.buildSuccessRate = R(0) /\ result.buildTotalRuns = R(3)
    /\ result.leadTimeMedianHours = R(0)
    /\ result.shipCount = R(1)

\* ship fields present and no lead time, sizes and build fields null
C28_WitnessPartial ==
    /\ Calculated
    /\ ShipFieldsNull = {FALSE}
    /\ result.leadTimeMedianHours = Null
    /\ result.prSizeMedian = Null /\ result.buildSuccessRate = Null

\* the PRs of the largest cycle time
Slowest == {i \in DOMAIN PRs : \A j \in DOMAIN PRs : RLe(CycleHours[j], CycleHours[i])}

\* C29: in every record calculateMetrics returns, cycleTimeMedianHours <=
\* cycleTimeP90Hours <= the largest cycle time of a PR; throughputCount is
\* the length of prNumbers; collaboratorCount <= throughputCount, and it is 0
\* exactly when throughputCount is 0; with throughputCount > 0,
\* 1 / collaboratorCount <= concentrationRatio <= 1.
C29_MetricRanges ==
    Calculated =>
        /\ RLe(result.cycleTimeMedianHours, result.cycleTimeP90Hours)
        /\ \A i \in Slowest : RLe(result.cycleTimeP90Hours, CycleHours[i])
        /\ result.throughputCount = R(Len(result.prNumbers))
        /\ RLe(result.collaboratorCount, result.throughputCount)
        /\ result.collaboratorCount = R(0) <=> result.throughputCount = R(0)
        /\ result.collaboratorCount = R(Cardinality(PRAuthors))
        /\ RLt(R(0), result.throughputCount) =>
              /\ RLe(RDiv(R(1), result.collaboratorCount), result.concentrationRatio)
              /\ RLe(result.concentrationRatio, R(1))

\* C29 witness: three PRs of two authors with three different cycle times:
\* the median is below the P90, which is the largest cycle time, and the
\* concentration lies strictly between 1/2 and 1
C29_Witness ==
    /\ Calculated
    /\ Len(PRs) = 3
    /\ result.collaboratorCount = R(2)
    /\ RLt(result.cycleTimeMedianHours, result.cycleTimeP90Hours)
    /\ \A i \in DOMAIN PRs : RLe(CycleHours[i], result.cycleTimeP90Hours)
    /\ result.concentrationRatio = Rat(2, 3)

\* many PRs: the P90 is below the largest cycle time
C29_WitnessBelowLargest ==
    /\ Calculated
    /\ \E i \in DOMAIN PRs : RLt(result.cycleTimeP90Hours, CycleHours[i])

\* the list s with its elements at i and j exchanged
Swapped(s, i, j) == [s EXCEPT ![i] = s[j], ![j] = s[i]]

\* every order of a short list; of a longer one, every exchange of two elements
Reordered(s) ==
    IF Len(s) <= MaxPRs + 1
    THEN {[i \in DOMAIN s |-> s[p[i]]] : p \in Permutations(DOMAIN s)}
    ELSE {Swapped(s, i, j) : i, j \in DOMAIN s}

\* calculateMetrics on the supplied arguments with another PR list, another
\* review list of PR n, another ship-event list
WithPRs(prs) ==
    calculateMetrics(prs, args.reviewsByPR, args.openPRCount, args.options)
WithReviews(n, reviews) ==
    calculateMetrics(PRs, [args.reviewsByPR EXCEPT ![n] = reviews], args.openPRCount,
                     args.options)
WithShipEvents(events) ==
    calculateMetrics(PRs, args.reviewsByPR, args.openPRCount,
                     [args.options EXCEPT !.shipEvents.list = events])

\* a record without the two fields that follow the order of the input
OrderFree(r) == [r EXCEPT !.prNumbers = <<>>, !.shipSource = "null"]

\* C30: the result of calculateMetrics does not depend on the order of its
\* input: with the PR list, the review list of any PR or the ship-event list
\* in another order, every field of the result is the same, except prNumbers,
\* which follows the PR list, and shipSource, which is the source of the
\* first ship event as supplied.
C30_OrderIndependent ==
    Calculated =>
        /\ \A prs \in Reordered(PRs) :
              /\ OrderFree(WithPRs(prs)) = OrderFree(result)
              /\ WithPRs(prs).prNumbers = [i \in DOMAIN prs |-> prs[i].number]
              /\ WithPRs(prs).shipSource = result.shipSource
        /\ \A n \in DOMAIN args.reviewsByPR :
              \A reviews \in Reordered(args.reviewsByPR[n]) :
                  WithReviews(n, reviews) = result
        /\ \A events \in Reordered(ShipList) :
              /\ OrderFree(WithShipEvents(events)) = OrderFree(result)
              /\ WithShipEvents(events).prNumbers = result.prNumbers
              /\ ShipsGiven => WithShipEvents(events).shipSource = events[1].source

\* the review lists of PR n in another order under which reviewDepthScore is
\* another number
DepthChangingOrders(n) ==
    {reviews \in Reordered(args.reviewsByPR[n]) :
        WithReviews(n, reviews).reviewDepthScore # result.reviewDepthScore}

\* C30 witness: one PR whose three reviews by others share inline comments
\* by thirds; with the reviews in another order the sum of their comment
\* counts, and reviewDepthScore with it, is rounded to another number
C30_DepthFollowsOrder ==
    /\ Calculated
    /\ Len(PRs) = 1
    /\ \E n \in DOMAIN args.reviewsByPR :
          /\ Len(args.reviewsByPR[n]) = 3
          /\ DepthChangingOrders(n) # {}

\* a and b are the same number but for the rounding of two sums
WithinRounding(a, b) ==
    LET d == RAdd(a, <<-b[1], b[2]>>)
        distance == <<Abs(d[1]), d[2]>>
    IN  RLe(Scale(distance, MantissaBits - 2), IF RLe(a, b) THEN b ELSE a)

OrderFreeButDepth(r) == [OrderFree(r) EXCEPT !.reviewDepthScore = R(0)]

\* what holds of C30: in another order every field but prNumbers and
\* shipSource is the same, reviewDepthScore up to the rounding of its sum
C30_OrderIndependentButDepth ==
    Calculated =>
        /\ \A prs \in Reordered(PRs) :
              /\ OrderFree(WithPRs(prs)) = OrderFree(result)
              /\ WithPRs(prs).prNumbers = [i \in DOMAIN prs |-> prs[i].number]
              /\ WithPRs(prs).shipSource = result.shipSource
        /\ \A n \in DOMAIN args.reviewsByPR :
              \A reviews \in Reordered(args.reviewsByPR[n]) :
                  /\ OrderFreeButDepth(WithReviews(n, reviews)) = OrderFreeButDepth(result)
                  /\ WithReviews(n, reviews).prNumbers = result.prNumbers
                  /\ WithReviews(n, reviews).shipSource = result.shipSource
                  /\ WithinRounding(WithReviews(n, reviews).reviewDepthScore,
                                    result.reviewDepthScore)
        /\ \A events \in Reordered(ShipList) :
              /\ OrderFree(WithShipEvents(events)) = OrderFree(result)
              /\ WithShipEvents(events).prNumbers = result.prNumbers
              /\ ShipsGiven => WithShipEvents(events).shipSource = events[1].source

\* three ship events of both sources, out of time order, and a
\* lead time measured; in another order the ship source is another
C30_Witness ==
    /\ Calculated
    /\ Len(ShipList) = 3
    /\ ShipList[1].createdAt > ShipList[2].createdAt
    /\ result.leadTimeMedianHours # Null
    /\ Len(PRs) = 2 /\ PRs[1].mergedAt # PRs[2].mergedAt
    /\ \E events \in Reordered(ShipList) : events[1].source # result.shipSource

\* three PRs of different authors and cycle times, in an order that is not
\* that of their cycle times
C30_WitnessPRs ==
    /\ Calculated
    /\ Len(PRs) = 3
    /\ RLt(CycleHours[2], CycleHours[1]) /\ RLt(CycleHours[1], CycleHours[3])
    /\ Cardinality(PRAuthors) = 2
    /\ Cardinality(Reordered(PRs)) = 6

\* a PR with two reviews by others, the later one first in its list
C30_WitnessReviews ==
    /\ Calculated
    /\ \E n \in DOMAIN args.reviewsByPR :
          /\ Len(args.reviewsByPR[n]) = 2
          /\ args.reviewsByPR[n][1].submittedAt > args.reviewsByPR[n][2].submittedAt
          /\ args.reviewsByPR[n][1].author # args.reviewsByPR[n][2].author
    /\ RLt(R(0), result.reviewTurnaroundMedianHours)

====
